---- MODULE Spec2Model ----
(***************************************************************************)
(* Verification model of the three-phase capillary-pressure / relative-    *)
(* permeability core of ewoms-material: EclEpsConfig, EnsureFinalized and  *)
(* the parameter classes built on it, EclStone1Material and                *)
(* EclMultiplexerMaterialParams.                                           *)
(*                                                                         *)
(* Build configuration: NDEBUG is not defined, so assert() aborts the      *)
(* process and EnsureFinalized::check() throws (ensurefinalized.hh:32).    *)
(*                                                                         *)
(* Scalars (double) are exact rationals n/d extended with the IEEE-754      *)
(* specials +Inf, -Inf and NaN; rounding and the sign of zero are not      *)
(* modelled.                                                               *)
(***************************************************************************)
EXTENDS Integers, Sequences, FiniteSets, TLC

VARIABLES eps, epsLast,
          s1, s1Last, s1Crashed,
          mux, heap, muxLast, muxAborted,
          obj, finLast,
          pts, ptsLast,
          lp, spHeap, lpLast,
          info, infoLast,
          tree, treeLast,
          ad, adCfg, adLast,
          hc, hcLast,
          tm, tmDeck, tmLast,
          ow, owHeap, owCls, owCrashed, owLast,
          ordInfo, ordPts, ordLast

epsVars == <<eps, epsLast>>
stoneVars == <<s1, s1Last, s1Crashed>>
muxVars == <<mux, heap, muxLast, muxAborted>>
finVars == <<obj, finLast>>
ptsVars == <<pts, ptsLast>>
coreVars == <<epsVars, stoneVars, muxVars, finVars>>
lawVars == <<lp, spHeap, lpLast>>
infoVars == <<info, infoLast>>
treeVars == <<tree, treeLast>>
adVars == <<ad, adCfg, adLast>>
hcVars == <<hc, hcLast>>
tmVars == <<tm, tmDeck, tmLast>>
owVars == <<ow, owHeap, owCls, owCrashed, owLast>>
ordVars == <<ordInfo, ordPts, ordLast>>
laterVars == <<ptsVars, lawVars, infoVars, treeVars, adVars, hcVars, tmVars, owVars, ordVars>>
vars == <<eps, epsLast, s1, s1Last, s1Crashed, mux, heap, muxLast,
          muxAborted, obj, finLast, pts, ptsLast, lp, spHeap, lpLast,
          info, infoLast, tree, treeLast,
          ad, adCfg, adLast,
          hc, hcLast,
          tm, tmDeck, tmLast,
          ow, owHeap, owCls, owCrashed, owLast,
          ordInfo, ordPts, ordLast>>

(***************************************************************************)
(* Scalar arithmetic                                                       *)
(***************************************************************************)
Abs(x) == IF x < 0 THEN -x ELSE x

RECURSIVE GCD(_, _)
GCD(a, b) == IF b = 0 THEN a ELSE GCD(b, a % b)

\* The rational n/d in lowest terms with a positive denominator (d # 0).
Rat(n, d) ==
    LET g == GCD(Abs(n), Abs(d))
        s == IF d < 0 THEN -1 ELSE 1
    IN [k |-> "fin", n |-> (s * n) \div g, d |-> (s * d) \div g]

NaN == [k |-> "nan", n |-> 0, d |-> 1]
PInf == [k |-> "pinf", n |-> 0, d |-> 1]
NInf == [k |-> "ninf", n |-> 0, d |-> 1]
Zero == Rat(0, 1)
One == Rat(1, 1)

IsFin(a) == a.k = "fin"
Sign(a) == CASE a.k = "pinf" -> 1
             [] a.k = "ninf" -> -1
             [] a.k = "nan" -> 0
             [] OTHER -> IF a.n > 0 THEN 1 ELSE IF a.n < 0 THEN -1 ELSE 0
InfOf(s) == IF s > 0 THEN PInf ELSE NInf

Neg(a) == CASE a.k = "fin" -> Rat(-a.n, a.d)
            [] a.k = "pinf" -> NInf
            [] a.k = "ninf" -> PInf
            [] OTHER -> NaN

Add(a, b) ==
    CASE a.k = "nan" \/ b.k = "nan" -> NaN
      [] IsFin(a) /\ IsFin(b) -> Rat(a.n * b.d + b.n * a.d, a.d * b.d)
      [] IsFin(a) -> b
      [] IsFin(b) -> a
      [] OTHER -> IF a.k = b.k THEN a ELSE NaN

Sub(a, b) == Add(a, Neg(b))

Mul(a, b) ==
    CASE a.k = "nan" \/ b.k = "nan" -> NaN
      [] IsFin(a) /\ IsFin(b) -> Rat(a.n * b.n, a.d * b.d)
      [] Sign(a) = 0 \/ Sign(b) = 0 -> NaN
      [] OTHER -> InfOf(Sign(a) * Sign(b))

Div(a, b) ==
    CASE a.k = "nan" \/ b.k = "nan" -> NaN
      [] IsFin(a) /\ IsFin(b) ->
           IF b.n # 0 THEN Rat(a.n * b.d, a.d * b.n)
           ELSE IF a.n = 0 THEN NaN ELSE InfOf(Sign(a))
      [] IsFin(a) -> Zero
      [] IsFin(b) -> InfOf(Sign(a) * (IF b.n < 0 THEN -1 ELSE 1))
      [] OTHER -> NaN

\* a < b; every comparison with NaN is false.
Lt(a, b) ==
    CASE a.k = "nan" \/ b.k = "nan" -> FALSE
      [] IsFin(a) /\ IsFin(b) -> a.n * b.d < b.n * a.d
      [] OTHER -> a.k # b.k /\ (a.k = "ninf" \/ b.k = "pinf")

Le(a, b) ==
    CASE a.k = "nan" \/ b.k = "nan" -> FALSE
      [] IsFin(a) /\ IsFin(b) -> a.n * b.d <= b.n * a.d
      [] OTHER -> a.k = b.k \/ a.k = "ninf" \/ b.k = "pinf"

Ge(a, b) == Le(b, a)

\* pow(x, e) for a whole, non-negative exponent e; pow(x, 0) is 1 for every x.
RECURSIVE Pow(_, _)
Pow(x, e) == IF e = 0 THEN One ELSE Mul(x, Pow(x, e - 1))

\* Toolbox::min / Toolbox::max on scalars: std::min(a, b) is (b < a) ? b : a
\* and std::max(a, b) is (a < b) ? b : a.
ToolboxMin(a, b) == IF Lt(b, a) THEN b ELSE a
ToolboxMax(a, b) == IF Lt(a, b) THEN b ELSE a

(***************************************************************************)
(* EclEpsConfig                                                            *)
(***************************************************************************)
EclTwoPhaseSystemType == {"EclGasOilSystem", "EclOilWaterSystem"}
JFuncFlag == {"BOTH", "WATER", "GAS"}
FieldProps == {"KRO", "KRW", "KRG", "PCW", "PCG", "SWATINIT"}

\* What initFromDeck reads of the deck: runspec().endpointScaling() and its
\* threepoint(), getTableManager().useJFunc() and getJFunc().flag(), and the
\* set of field properties fieldProps.has<double>() answers true for.
Decks == [endscale : BOOLEAN, threepoint : BOOLEAN, useJFunc : BOOLEAN,
          flag : JFuncFlag, props : SUBSET FieldProps]

EpsFlags == {"enableSatScaling_", "enableThreePointKrSatScaling_",
             "enablePcScaling_", "enableLeverettScaling_", "enableKrwScaling_",
             "enableKrnScaling_"}

\* Faulty variant of EclEpsConfigCtor: saturation scaling starts enabled.
EclEpsConfigCtorSatScaling == [f \in EpsFlags |-> f = "enableSatScaling_"]

\* EclEpsConfig(): by default, do not scale anything.
EclEpsConfigCtor == [f \in EpsFlags |-> FALSE]

\* The deck has the capillary-pressure property initFromDeck looks for.
HasPcProp(deck, sys) ==
    IF sys = "EclOilWaterSystem"
    THEN "PCW" \in deck.props \/ "SWATINIT" \in deck.props
    ELSE "PCG" \in deck.props

\* Whether the JFUNC keyword of the deck applies to the two-phase system.
JFuncApplies(deck, sys) ==
    /\ deck.useJFunc
    /\ IF sys = "EclOilWaterSystem"
       THEN deck.flag \in {"BOTH", "WATER"}
       ELSE deck.flag \in {"BOTH", "GAS"}

\* Faulty variant of InitFromDeckFlags: without endpoint scaling the Leverett
\* flag is left as it was.
InitFromDeckFlagsKeepLeverett(cfg, deck, sys) ==
    IF ~deck.endscale
    THEN [f \in EpsFlags |-> f = "enableLeverettScaling_" /\ cfg[f]]
    ELSE [enableSatScaling_ |-> TRUE,
          enableThreePointKrSatScaling_ |-> deck.threepoint,
          enableLeverettScaling_ |->
              IF JFuncApplies(deck, sys) THEN TRUE ELSE cfg.enableLeverettScaling_,
          enableKrnScaling_ |->
              IF sys = "EclOilWaterSystem" THEN "KRO" \in deck.props
                                           ELSE "KRG" \in deck.props,
          enableKrwScaling_ |->
              IF sys = "EclOilWaterSystem" THEN "KRW" \in deck.props
                                           ELSE "KRO" \in deck.props,
          enablePcScaling_ |-> HasPcProp(deck, sys)]

\* The flags initFromDeck leaves in the object (also when it throws).
InitFromDeckFlags(cfg, deck, sys) ==
    IF ~deck.endscale
    THEN [f \in EpsFlags |-> FALSE]
    ELSE [enableSatScaling_ |-> TRUE,
          enableThreePointKrSatScaling_ |-> deck.threepoint,
          enableLeverettScaling_ |->
              IF JFuncApplies(deck, sys) THEN TRUE ELSE cfg.enableLeverettScaling_,
          enableKrnScaling_ |->
              IF sys = "EclOilWaterSystem" THEN "KRO" \in deck.props
                                           ELSE "KRG" \in deck.props,
          enableKrwScaling_ |->
              IF sys = "EclOilWaterSystem" THEN "KRW" \in deck.props
                                           ELSE "KRO" \in deck.props,
          enablePcScaling_ |-> HasPcProp(deck, sys)]

\* Faulty variant of InitFromDeckThrows: the exclusivity check is made for the
\* oil-water system only.
InitFromDeckThrowsOilWaterOnly(cfg, deck, sys) ==
    /\ sys = "EclOilWaterSystem"
    /\ deck.endscale
    /\ HasPcProp(deck, sys)
    /\ (JFuncApplies(deck, sys) \/ cfg.enableLeverettScaling_)

\* initFromDeck throws std::runtime_error at the end of the endpoint-scaling
\* branch when both flags are set.
InitFromDeckThrows(cfg, deck, sys) ==
    LET after == InitFromDeckFlags(cfg, deck, sys)
    IN deck.endscale /\ after.enablePcScaling_ /\ after.enableLeverettScaling_

\* setEnableSatScaling, setEnableThreePointKrSatScaling, setEnableKrwScaling,
\* setEnableKrnScaling, setEnablePcScaling, setEnableLeverettScaling.
SetterFlags(cfg, f, yesno) == [cfg EXCEPT ![f] = yesno]

\* epsLast records the last operation on the EclEpsConfig object: for
\* initFromDeck whether the deck enables endpoint scaling, has the
\* capillary-pressure property of the system and an applicable JFUNC, and
\* whether the call threw.
EpsNone == [op |-> "ctor", flag |-> "none", endscale |-> FALSE,
            pcProp |-> FALSE, jfunc |-> FALSE, threw |-> FALSE]

EpsSetEnable(f, yesno) ==
    /\ eps' = SetterFlags(eps, f, yesno)
    /\ epsLast' = [EpsNone EXCEPT !.op = "setter", !.flag = f]
    /\ UNCHANGED <<stoneVars, muxVars, finVars, laterVars>>

EpsInitFromDeck(deck, sys) ==
    /\ eps' = InitFromDeckFlags(eps, deck, sys)
    /\ epsLast' = [EpsNone EXCEPT !.op = "initFromDeck",
                                  !.endscale = deck.endscale,
                                  !.pcProp = HasPcProp(deck, sys),
                                  !.jfunc = JFuncApplies(deck, sys),
                                  !.threw = InitFromDeckThrows(eps, deck, sys)]
    /\ UNCHANGED <<stoneVars, muxVars, finVars, laterVars>>

(***************************************************************************)
(* EnsureFinalized and the accessors of the parameter classes              *)
(***************************************************************************)
\* NDEBUG is not defined: USE_EWOMS_CHECK_PARAM_FINALIZED is 1.
NDEBUG == FALSE

\* EnsureFinalized::check(): throws std::runtime_error unless finalized_.
CheckThrows(finalized) == ~NDEBUG /\ ~finalized

ParamClasses == {"EclStone1MaterialParams", "EclStone2MaterialParams",
                 "EclDefaultMaterialParams", "EclTwoPhaseMaterialParams",
                 "EclEpsTwoPhaseLawParams", "EclMultiplexerMaterialParams"}

\* The const accessors of each parameter class.
AccessorsOf(cls) ==
    CASE cls = "EclStone1MaterialParams" ->
           {"gasOilParams", "oilWaterParams", "Swl", "krocw", "eta"}
      [] cls = "EclStone2MaterialParams" ->
           {"gasOilParams", "oilWaterParams", "Swl"}
      [] cls = "EclDefaultMaterialParams" ->
           {"gasOilParams", "oilWaterParams", "Swl", "inconsistentHysteresisUpdate"}
      [] cls = "EclTwoPhaseMaterialParams" ->
           {"gasOilParams", "oilWaterParams", "approach"}
      [] cls = "EclEpsTwoPhaseLawParams" ->
           {"config", "unscaledPoints", "scaledPoints", "effectiveLawParams"}
      [] cls = "EclMultiplexerMaterialParams" ->
           {"approach", "getRealParams"}

\* Faulty variant of CallsCheck: Swl() returns Swl_ without the check.
CallsCheckButSwl(cls, acc) ==
    /\ cls \in {"EclStone1MaterialParams", "EclStone2MaterialParams",
                "EclDefaultMaterialParams", "EclTwoPhaseMaterialParams"}
    /\ acc \in {"gasOilParams", "oilWaterParams", "krocw", "eta"}

\* The accessors whose body starts with EnsureFinalized::check().
CallsCheck(cls, acc) ==
    /\ cls \in {"EclStone1MaterialParams", "EclStone2MaterialParams",
                "EclDefaultMaterialParams", "EclTwoPhaseMaterialParams"}
    /\ acc \in {"gasOilParams", "oilWaterParams", "Swl", "krocw", "eta"}

(***************************************************************************)
(* The nested two-phase laws                                               *)
(***************************************************************************)
\* GasOilMaterialLawT and OilWaterMaterialLawT are template parameters that
\* implement the two-phase saturation API. A parameter object of such a law
\* is one of: "Linear" (krw = Sw, krn = 1 - Sw, pcnw = 3 (1 - Sw), not
\* regularized, so that saturations outside [0, 1] give relperms below 0
\* and above 1) and "Const2" (every relperm and the capillary pressure
\* are 2).
LawParams == {"Linear", "Const2"}
Null == "null"

Two == Rat(2, 1)
Three == Rat(3, 1)

TwoPhaseSatKrw(p, Sw) == IF p = "Const2" THEN Two ELSE Sw

TwoPhaseSatKrn(p, Sw) == IF p = "Const2" THEN Two ELSE Sub(One, Sw)

TwoPhaseSatPcnw(p, Sw) ==
    IF p = "Const2" THEN Two ELSE Mul(Three, Sub(One, Sw))

(***************************************************************************)
(* EclStone1MaterialParams and EclStone1Material                           *)
(***************************************************************************)
SatDen == 3
MaxEta == 2

\* Saturations of the fluid state, including values outside [0, 1].
Sats == {Rat(n, SatDen) : n \in -1..(SatDen + 1)}
\* Connate water saturations.
SwlDom == {Zero, Rat(1, SatDen), One}
EtaDom == 1..MaxEta

\* Faulty variant of Stone1Beta: the gas saturation is not normalized by 1 - Swco.
Stone1BetaRawSg(params, Sw, Sg) ==
    LET Swco == params.Swl_
        SSw == Div(Sub(Sw, Swco), Sub(One, Swco))
        SSg == Sg
        SSo == Sub(Sub(One, SSw), SSg)
    IN IF Le(Sw, Swco) THEN One
       ELSE IF Ge(SSw, One) \/ Ge(SSg, One) THEN One
       ELSE Pow(Div(SSo, Mul(Sub(One, SSw), Sub(One, SSg))), params.eta_)

\* EclStone1Material::krn, the blend exponent: lines 308-323.
Stone1Beta(params, Sw, Sg) ==
    LET Swco == params.Swl_
        SSw == Div(Sub(Sw, Swco), Sub(One, Swco))
        SSg == Div(Sg, Sub(One, Swco))
        SSo == Sub(Sub(One, SSw), SSg)
    IN IF Le(Sw, Swco) THEN One
       ELSE IF Ge(SSw, One) \/ Ge(SSg, One) THEN One
       ELSE Pow(Div(SSo, Mul(Sub(One, SSw), Sub(One, SSg))), params.eta_)

\* Faulty variant of Stone1KrnDivisors: the normalized saturations and the
\* quotient of the exponent branch are computed before the tests on Sw, SSw
\* and SSg.
Stone1KrnDivisorsBeforeTests(params, Sw, Sg) ==
    LET Swco == params.Swl_
        SSw == Div(Sub(Sw, Swco), Sub(One, Swco))
        SSg == Div(Sg, Sub(One, Swco))
    IN <<Sub(One, Swco), Sub(One, Swco),
         Mul(Sub(One, SSw), Sub(One, SSg)), params.krocw_>>

\* EclStone1Material::krn: the divisors of the divisions it evaluates, in
\* the order of evaluation (SSw, SSg, the quotient of the exponent branch
\* and, last and on every path, krocw).
Stone1KrnDivisors(params, Sw, Sg) ==
    LET Swco == params.Swl_
        SSw == Div(Sub(Sw, Swco), Sub(One, Swco))
        SSg == Div(Sg, Sub(One, Swco))
    IN IF Le(Sw, Swco) THEN <<params.krocw_>>
       ELSE IF Ge(SSw, One) \/ Ge(SSg, One)
       THEN <<Sub(One, Swco), Sub(One, Swco), params.krocw_>>
       ELSE <<Sub(One, Swco), Sub(One, Swco),
              Mul(Sub(One, SSw), Sub(One, SSg)), params.krocw_>>

\* The value EclStone1Material::krn clamps: beta*kro_ow*kro_go/krocw.
Stone1RawKro(params, Sw, Sg) ==
    LET Swco == params.Swl_
        krocw == params.krocw_
        kro_ow == TwoPhaseSatKrn(params.oilWaterParams_, Sw)
        kro_go == TwoPhaseSatKrw(params.gasOilParams_, Sub(Sub(One, Sg), Swco))
        beta == Stone1Beta(params, Sw, Sg)
    IN Div(Mul(Mul(beta, kro_ow), kro_go), krocw)

\* Faulty variant of Stone1Krn: the nested relperms are clamped to [0, 1] before the
\* blend and the blend itself is returned as it is.
Stone1KrnClampFirst(params, Sw, Sg) ==
    LET Swco == params.Swl_
        c(x) == ToolboxMax(Zero, ToolboxMin(One, x))
        kro_ow == c(TwoPhaseSatKrn(params.oilWaterParams_, Sw))
        kro_go == c(TwoPhaseSatKrw(params.gasOilParams_, Sub(Sub(One, Sg), Swco)))
    IN Div(Mul(Mul(Stone1Beta(params, Sw, Sg), kro_ow), kro_go), params.krocw_)

\* EclStone1Material::krn
Stone1Krn(params, Sw, Sg) ==
    ToolboxMax(Zero, ToolboxMin(One, Stone1RawKro(params, Sw, Sg)))

\* EclStone1Material::krw
Stone1Krw(params, Sw, Sg) == TwoPhaseSatKrw(params.oilWaterParams_, Sw)

\* EclStone1Material::krg
Stone1Krg(params, Sw, Sg) ==
    TwoPhaseSatKrn(params.gasOilParams_, Sub(One, Sg))

\* Faulty variant of Stone1Pcgn: the gas-oil law is evaluated at Sg, not at 1 - Sg.
Stone1PcgnAtSg(params, Sw, Sg) == TwoPhaseSatPcnw(params.gasOilParams_, Sg)

\* EclStone1Material::pcgn
Stone1Pcgn(params, Sw, Sg) ==
    TwoPhaseSatPcnw(params.gasOilParams_, Sub(One, Sg))

\* EclStone1Material::pcnw
Stone1Pcnw(params, Sw, Sg) == TwoPhaseSatPcnw(params.oilWaterParams_, Sw)

\* EclStone1Material::relativePermeabilities: the values of the water, oil
\* and gas phase.
RelativePermeabilities(params, Sw, Sg) ==
    [water |-> Stone1Krw(params, Sw, Sg),
     oil |-> Stone1Krn(params, Sw, Sg),
     gas |-> Stone1Krg(params, Sw, Sg)]

\* EclStone1Material::capillaryPressures
CapillaryPressures(params, Sw, Sg) ==
    [water |-> Neg(Stone1Pcnw(params, Sw, Sg)),
     oil |-> Zero,
     gas |-> Stone1Pcgn(params, Sw, Sg)]

\* Faulty variant of FinalizeKrocw: the oil-water law is evaluated at Sw = 0.
FinalizeKrocwAtZero(params) == TwoPhaseSatKrn(params.oilWaterParams_, Zero)

\* EclStone1MaterialParams::finalize: the value stored in krocw_.
FinalizeKrocw(params) == TwoPhaseSatKrn(params.oilWaterParams_, params.Swl_)

\* What an operation that dereferences a null shared_ptr may leave behind
\* when the process survives it.
UBScalars == {NaN, Two}

S1None == [op |-> "ctor", status |-> "ok", Sw |-> Zero, Sg |-> Zero,
           water |-> Zero, oil |-> Zero, gas |-> Zero]

\* EclStone1MaterialParams(): the shared pointers are null, finalized_ is
\* false and the scalars Swl_, eta_ and krocw_ are not initialized, so they
\* hold whatever the memory held (krocw_ is written by finalize before any
\* read of it, so one value stands for its garbage).
Stone1ParamsCtor ==
    [finalized_ : {FALSE}, gasOilParams_ : {Null}, oilWaterParams_ : {Null},
     Swl_ : SwlDom, eta_ : EtaDom, krocw_ : {Zero}]

S1SetSwl(val) ==
    /\ ~s1Crashed
    /\ s1' = [s1 EXCEPT !.Swl_ = val]
    /\ s1Last' = [S1None EXCEPT !.op = "setSwl"]
    /\ UNCHANGED <<s1Crashed, epsVars, muxVars, finVars, laterVars>>

S1SetEta(val) ==
    /\ ~s1Crashed
    /\ s1' = [s1 EXCEPT !.eta_ = val]
    /\ s1Last' = [S1None EXCEPT !.op = "setEta"]
    /\ UNCHANGED <<s1Crashed, epsVars, muxVars, finVars, laterVars>>

S1SetOilWaterParams(val) ==
    /\ ~s1Crashed
    /\ s1' = [s1 EXCEPT !.oilWaterParams_ = val]
    /\ s1Last' = [S1None EXCEPT !.op = "setOilWaterParams"]
    /\ UNCHANGED <<s1Crashed, epsVars, muxVars, finVars, laterVars>>

S1SetGasOilParams(val) ==
    /\ ~s1Crashed
    /\ s1' = [s1 EXCEPT !.gasOilParams_ = val]
    /\ s1Last' = [S1None EXCEPT !.op = "setGasOilParams"]
    /\ UNCHANGED <<s1Crashed, epsVars, muxVars, finVars, laterVars>>

\* finalize(): dereferences oilWaterParams_ (undefined if it is null: the
\* process crashes or goes on with some krocw_), then sets finalized_.
S1Finalize ==
    /\ ~s1Crashed
    /\ IF s1.oilWaterParams_ # Null
       THEN /\ s1' = [s1 EXCEPT !.krocw_ = FinalizeKrocw(s1), !.finalized_ = TRUE]
            /\ s1Last' = [S1None EXCEPT !.op = "finalize"]
            /\ UNCHANGED s1Crashed
       ELSE \/ /\ s1Crashed' = TRUE
               /\ s1Last' = [S1None EXCEPT !.op = "finalize", !.status = "ub"]
               /\ UNCHANGED s1
            \/ /\ \E v \in UBScalars :
                    s1' = [s1 EXCEPT !.krocw_ = v, !.finalized_ = TRUE]
               /\ s1Last' = [S1None EXCEPT !.op = "finalize", !.status = "ub"]
               /\ UNCHANGED s1Crashed
    /\ UNCHANGED <<epsVars, muxVars, finVars, laterVars>>

\* An evaluation of the law (result is RelativePermeabilities or
\* CapillaryPressures at Sw, Sg): the first accessor of the parameters throws
\* if they are not finalized; a null nested parameter pointer is undefined
\* behaviour. s1Last keeps the saturations and the values of a call that
\* returned normally.
S1Evaluate(op, result, Sw, Sg) ==
    /\ ~s1Crashed
    /\ UNCHANGED s1
    /\ IF CheckThrows(s1.finalized_)
       THEN /\ s1Last' = [S1None EXCEPT !.op = op, !.status = "runtime_error"]
            /\ UNCHANGED s1Crashed
       ELSE IF s1.oilWaterParams_ = Null \/ s1.gasOilParams_ = Null
       THEN \/ /\ s1Crashed' = TRUE
               /\ s1Last' = [S1None EXCEPT !.op = op, !.status = "ub"]
            \/ /\ \E v \in UBScalars :
                    s1Last' = [S1None EXCEPT !.op = op, !.status = "ub",
                                             !.water = v, !.oil = v, !.gas = v]
               /\ UNCHANGED s1Crashed
       ELSE /\ s1Last' = [op |-> op, status |-> "ok", Sw |-> Sw, Sg |-> Sg,
                          water |-> result.water, oil |-> result.oil,
                          gas |-> result.gas]
            /\ UNCHANGED s1Crashed
    /\ UNCHANGED <<epsVars, muxVars, finVars, laterVars>>

S1RelativePermeabilities(Sw, Sg) ==
    S1Evaluate("relativePermeabilities", RelativePermeabilities(s1, Sw, Sg), Sw, Sg)

S1CapillaryPressures(Sw, Sg) ==
    S1Evaluate("capillaryPressures", CapillaryPressures(s1, Sw, Sg), Sw, Sg)

(***************************************************************************)
(* EclMultiplexerMaterialParams                                            *)
(***************************************************************************)
NumInst == 2

\* The multiplexer objects of the program and the addresses of the heap.
Inst == 1..NumInst
Addr == 1..(NumInst + 1)
NullPtr == 0

Tags == {"EclDefaultApproach", "EclStone1Approach", "EclStone2Approach",
         "EclTwoPhaseApproach", "EclOnePhaseApproach"}
\* The tags getRealParams is defined for and setApproach allocates for.
ParamTags == Tags \ {"EclOnePhaseApproach"}
\* A value of the enumeration type that is none of its enumerators.
Invalid == "invalid"
\* The content of memory that has not been written since its allocation.
Indet == "indeterminate"

\* The class setApproach allocates in each case of its switch.
ParamClassOf(tag) ==
    CASE tag = "EclStone1Approach" -> "EclStone1MaterialParams"
      [] tag = "EclStone2Approach" -> "EclStone2MaterialParams"
      [] tag = "EclDefaultApproach" -> "EclDefaultMaterialParams"
      [] tag = "EclTwoPhaseApproach" -> "EclTwoPhaseMaterialParams"

\* A heap cell: free, or a parameter object of one of the four classes with
\* its finalized_ flag and its oil-water parameter pointer (which stands for
\* all the values its setters store).
FreeCell == [live |-> FALSE, type |-> "none", finalized_ |-> FALSE,
             oilWaterParams_ |-> Null]

\* new ParamT: the default constructor leaves finalized_ false and the shared
\* pointers null.
NewParams(cls) == [live |-> TRUE, type |-> cls, finalized_ |-> FALSE,
                   oilWaterParams_ |-> Null]

\* A multiplexer that is not constructed (or destroyed).
NoMux == [alive |-> FALSE, approach_ |-> Indet, realParams_ |-> NullPtr]

\* EclMultiplexerMaterialParams(): realParams_ is null, approach_ is not
\* initialized.
MuxDefault == [alive |-> TRUE, approach_ |-> Indet, realParams_ |-> NullPtr]

FreeAddrs(h) == {a \in Addr : ~h[a].live}
\* operator new for instance i: an address that is not in use. Which one is
\* immaterial; the model takes address i if it is free and the lowest free
\* address otherwise.
NewAddr(h, i) ==
    IF i \in FreeAddrs(h) THEN i
    ELSE CHOOSE a \in FreeAddrs(h) : \A b \in FreeAddrs(h) : a <= b

\* The values a read of approach_ can give: an unwritten approach_ gives any
\* value of the enumeration type.
ReadApproach(m) ==
    IF m.approach_ = Indet THEN Tags \cup {Invalid} ELSE {m.approach_}

\* std::shared_ptr: instance i gives up its pointer; the object is deleted (by
\* the Deleter of the class it was allocated as) when no other instance
\* holds it.
Release(w, i) ==
    LET a == w.mux[i].realParams_
        shared == \E j \in Inst \ {i} : w.mux[j].alive /\ w.mux[j].realParams_ = a
    IN [mux |-> [w.mux EXCEPT ![i].realParams_ = NullPtr],
        heap |-> IF a = NullPtr \/ shared THEN w.heap
                 ELSE [w.heap EXCEPT ![a] = FreeCell]]

\* Faulty variant of SetApproachPrecondition: the assertion is missing.
SetApproachPreconditionNone(m) == TRUE

\* setApproach: assert(realParams_ == 0).
SetApproachPrecondition(m) == NDEBUG \/ m.realParams_ = NullPtr

\* setApproach after its assertion: stores the tag and allocates the
\* parameter object of the tag (none for EclOnePhaseApproach and for a value
\* that is no enumerator).
SetApproachBody(w, i, t) ==
    IF t \in ParamTags
    THEN LET a == NewAddr(w.heap, i)
         IN [mux |-> [w.mux EXCEPT ![i].approach_ = t, ![i].realParams_ = a],
             heap |-> [w.heap EXCEPT ![a] = NewParams(ParamClassOf(t))]]
    ELSE [mux |-> [w.mux EXCEPT ![i].approach_ = t], heap |-> w.heap]

\* Faulty variant of CopyBody: the copy takes over the pointer of the source, so both
\* share the parameter object.
CopyBodyShared(w, i, j, t) ==
    [mux |-> [w.mux EXCEPT ![i].approach_ = t,
                           ![i].realParams_ = w.mux[j].realParams_],
     heap |-> w.heap]

\* Faulty variant of CopyBody: the new parameter object is a copy of the source's.
CopyBodyDeep(w, i, j, t) ==
    LET v == SetApproachBody(w, i, t)
        src == w.mux[j].realParams_
    IN IF t \in ParamTags /\ src # NullPtr /\ w.heap[src].live
       THEN [v EXCEPT !.heap[v.mux[i].realParams_] = w.heap[src]]
       ELSE v

\* The copy constructor and operator= once realParams_ is null:
\* setApproach(other.approach()), t being the value read from the source j.
CopyBody(w, i, j, t) == SetApproachBody(w, i, t)

\* Faulty variant of GetRealParamsPrecondition: the assertion is missing.
GetRealParamsPreconditionNone(appr, approachV) == TRUE

\* getRealParams<approachV>: assert(approach() == approachV), appr being the
\* value read from approach_.
GetRealParamsPrecondition(appr, approachV) == NDEBUG \/ appr = approachV

World == [mux |-> mux, heap |-> heap]

\* muxLast: the last operation, the instance it ran on, the other instance
\* (the source of a copy), the tag argument, how it ended, the address it
\* returned, and what the instance held before the call.
MuxNone == [op |-> "none", inst |-> 0, other |-> 0, tag |-> "none",
            result |-> "ok", addr |-> NullPtr, prevTag |-> Indet,
            prevOwned |-> FALSE]

MuxRecord(op, i, j, t, result) ==
    [MuxNone EXCEPT !.op = op, !.inst = i, !.other = j, !.tag = t,
                    !.result = result, !.prevTag = mux[i].approach_,
                    !.prevOwned = (mux[i].realParams_ # NullPtr)]

Commit(w) == mux' = w.mux /\ heap' = w.heap

MuxCtor(i) ==
    /\ ~muxAborted /\ ~mux[i].alive
    /\ mux' = [mux EXCEPT ![i] = MuxDefault]
    /\ muxLast' = MuxRecord("ctor", i, 0, "none", "ok")
    /\ UNCHANGED <<heap, muxAborted, epsVars, stoneVars, finVars, laterVars>>

MuxSetApproach(i, newApproach) ==
    /\ ~muxAborted /\ mux[i].alive
    /\ IF SetApproachPrecondition(mux[i])
       THEN /\ Commit(SetApproachBody(World, i, newApproach))
            /\ muxLast' = MuxRecord("setApproach", i, 0, newApproach, "ok")
            /\ UNCHANGED muxAborted
       ELSE /\ muxAborted' = TRUE
            /\ muxLast' = MuxRecord("setApproach", i, 0, newApproach,
                                    "assertion_failed")
            /\ UNCHANGED <<mux, heap>>
    /\ UNCHANGED <<epsVars, stoneVars, finVars, laterVars>>

\* EclMultiplexerMaterialParams(const EclMultiplexerMaterialParams& other)
MuxCopyCtor(i, j) ==
    /\ ~muxAborted /\ ~mux[i].alive /\ mux[j].alive
    /\ \E t \in ReadApproach(mux[j]) :
          Commit(CopyBody([mux |-> [mux EXCEPT ![i] = MuxDefault],
                           heap |-> heap], i, j, t))
    /\ muxLast' = MuxRecord("copy", i, j, "none", "ok")
    /\ UNCHANGED <<muxAborted, epsVars, stoneVars, finVars, laterVars>>

\* operator=: realParams_.reset(); setApproach(other.approach()).
MuxAssign(i, j) ==
    /\ ~muxAborted /\ mux[i].alive /\ mux[j].alive
    /\ LET w == Release(World, i)
       IN \E t \in ReadApproach(w.mux[j]) : Commit(CopyBody(w, i, j, t))
    /\ muxLast' = MuxRecord("assign", i, j, "none", "ok")
    /\ UNCHANGED <<muxAborted, epsVars, stoneVars, finVars, laterVars>>

\* The (implicit) destructor: realParams_ is released.
MuxDtor(i) ==
    /\ ~muxAborted /\ mux[i].alive
    /\ LET w == Release(World, i)
       IN Commit([w EXCEPT !.mux[i] = NoMux])
    /\ muxLast' = MuxRecord("dtor", i, 0, "none", "ok")
    /\ UNCHANGED <<muxAborted, epsVars, stoneVars, finVars, laterVars>>

\* getRealParams<approachV>(): the assertion, then castTo, which dereferences
\* realParams_ (undefined if it is null).
MuxGetRealParams(i, approachV) ==
    /\ ~muxAborted /\ mux[i].alive
    /\ \E appr \in ReadApproach(mux[i]) :
          IF ~GetRealParamsPrecondition(appr, approachV)
          THEN /\ muxAborted' = TRUE
               /\ muxLast' = MuxRecord("getRealParams", i, 0, approachV,
                                       "assertion_failed")
          ELSE IF mux[i].realParams_ = NullPtr
          THEN /\ muxAborted' = TRUE
               /\ muxLast' = MuxRecord("getRealParams", i, 0, approachV, "ub")
          ELSE /\ UNCHANGED muxAborted
               /\ muxLast' = [MuxRecord("getRealParams", i, 0, approachV, "ok")
                                EXCEPT !.addr = mux[i].realParams_]
    /\ UNCHANGED <<mux, heap, epsVars, stoneVars, finVars, laterVars>>

\* The tag under which the parameter object of instance i is reached:
\* getRealParams<approach()>() with its assertion passed.
Reachable(i) ==
    /\ mux[i].alive
    /\ mux[i].approach_ \in ParamTags
    /\ mux[i].realParams_ # NullPtr

\* getRealParams<approach()>().setOilWaterParams(val)
MuxParamSetOilWaterParams(i) ==
    /\ ~muxAborted /\ Reachable(i)
    /\ heap' = [heap EXCEPT ![mux[i].realParams_].oilWaterParams_ = "Linear"]
    /\ muxLast' = MuxRecord("param", i, 0, "none", "ok")
    /\ UNCHANGED <<mux, muxAborted, epsVars, stoneVars, finVars, laterVars>>

\* getRealParams<approach()>().finalize(); for the Stone1 parameters finalize
\* dereferences oilWaterParams_, which is undefined if it is null.
MuxParamFinalize(i) ==
    /\ ~muxAborted /\ Reachable(i)
    /\ IF /\ mux[i].approach_ = "EclStone1Approach"
          /\ heap[mux[i].realParams_].oilWaterParams_ = Null
       THEN /\ muxAborted' = TRUE
            /\ muxLast' = MuxRecord("param", i, 0, "none", "ub")
            /\ UNCHANGED heap
       ELSE /\ heap' = [heap EXCEPT ![mux[i].realParams_].finalized_ = TRUE]
            /\ muxLast' = MuxRecord("param", i, 0, "none", "ok")
            /\ UNCHANGED muxAborted
    /\ UNCHANGED <<mux, epsVars, stoneVars, finVars, laterVars>>

(***************************************************************************)
(* The finalize protocol of the parameter classes                          *)
(***************************************************************************)
\* The pointer members of each class that a setter stores and an accessor
\* dereferences.
Members(cls) ==
    CASE cls = "EclEpsTwoPhaseLawParams" ->
           {"config_", "unscaledPoints_", "effectiveLawParams_"}
      [] cls = "EclMultiplexerMaterialParams" -> {}
      [] OTHER -> {"gasOilParams_", "oilWaterParams_"}

\* The member an accessor dereferences ("none": it returns a member by value
\* or by reference without dereferencing a pointer).
Dereferences(acc) ==
    CASE acc = "gasOilParams" -> "gasOilParams_"
      [] acc = "oilWaterParams" -> "oilWaterParams_"
      [] acc = "config" -> "config_"
      [] acc = "unscaledPoints" -> "unscaledPoints_"
      [] acc = "effectiveLawParams" -> "effectiveLawParams_"
      [] OTHER -> "none"

\* A default-constructed object of class cls: finalized_ is false, every
\* pointer member is null ("set" holds the members that are not), the
\* multiplexer's approach_ is not initialized. satScaling is
\* config_->enableSatScaling() once config_ is set.
FinDefault(cls) == [cls |-> cls, finalized_ |-> FALSE, set |-> {},
                    approach_ |-> Indet, satScaling |-> FALSE]

FinNone == [op |-> "ctor", acc |-> "none", outcome |-> "ok"]

\* The process has ended: an assertion failed or it crashed.
FinHalted == finLast.outcome \in {"assertion_failed", "crashed"}

\* setGasOilParams, setOilWaterParams, setConfig, setUnscaledPoints,
\* setEffectiveLawParams with a pointer that is not null.
FinSet(m, sat) ==
    /\ ~FinHalted
    /\ m \in Members(obj.cls)
    /\ obj' = [obj EXCEPT !.set = @ \cup {m},
                          !.satScaling = IF m = "config_" THEN sat ELSE @]
    /\ finLast' = [FinNone EXCEPT !.op = "set"]
    /\ UNCHANGED <<epsVars, stoneVars, muxVars, laterVars>>

\* EclMultiplexerMaterialParams::setApproach
FinSetApproach(t) ==
    /\ ~FinHalted
    /\ obj.cls = "EclMultiplexerMaterialParams"
    /\ IF obj.approach_ \in ParamTags /\ ~NDEBUG
       THEN /\ finLast' = [FinNone EXCEPT !.op = "setApproach",
                                         !.outcome = "assertion_failed"]
            /\ UNCHANGED obj
       ELSE /\ obj' = [obj EXCEPT !.approach_ = t]
            /\ finLast' = [FinNone EXCEPT !.op = "setApproach"]
    /\ UNCHANGED <<epsVars, stoneVars, muxVars, laterVars>>

\* The assertions of EclEpsTwoPhaseLawParams::finalize.
EpsParamsFinalizeAsserts(o) ==
    /\ "config_" \in o.set
    /\ o.satScaling => "unscaledPoints_" \in o.set
    /\ "effectiveLawParams_" \in o.set

\* finalize(): EnsureFinalized::finalize for every class; before it,
\* EclStone1MaterialParams dereferences oilWaterParams_ (undefined if null)
\* and EclEpsTwoPhaseLawParams asserts that its pointers are set.
FinFinalize ==
    /\ ~FinHalted
    /\ IF obj.cls = "EclEpsTwoPhaseLawParams" /\ ~NDEBUG
          /\ ~EpsParamsFinalizeAsserts(obj)
       THEN /\ finLast' = [FinNone EXCEPT !.op = "finalize",
                                         !.outcome = "assertion_failed"]
            /\ UNCHANGED obj
       ELSE IF obj.cls = "EclStone1MaterialParams"
               /\ "oilWaterParams_" \notin obj.set
       THEN \/ /\ finLast' = [FinNone EXCEPT !.op = "finalize",
                                            !.outcome = "crashed"]
               /\ UNCHANGED obj
            \/ /\ finLast' = [FinNone EXCEPT !.op = "finalize",
                                            !.outcome = "ub"]
               /\ obj' = [obj EXCEPT !.finalized_ = TRUE]
       ELSE /\ obj' = [obj EXCEPT !.finalized_ = TRUE]
            /\ finLast' = [FinNone EXCEPT !.op = "finalize"]
    /\ UNCHANGED <<epsVars, stoneVars, muxVars, laterVars>>

\* How a call of accessor acc on object o ends: "runtime_error" when the
\* accessor calls check() and o is not finalized; for getRealParams (taken
\* as getRealParams<EclStone1Approach>) "assertion_failed" when the tag is
\* another one; "ub" when it dereferences a null pointer or decides on an
\* approach_ that was never written; "ok" otherwise.
AccessOutcomes(o, acc) ==
    IF CallsCheck(o.cls, acc) /\ CheckThrows(o.finalized_)
    THEN {"runtime_error"}
    ELSE IF acc = "getRealParams"
    THEN CASE o.approach_ = Indet -> {"assertion_failed", "ub"}
           [] o.approach_ = "EclStone1Approach" -> {"ok"}
           [] OTHER -> IF NDEBUG THEN {"ub"} ELSE {"assertion_failed"}
    ELSE IF Dereferences(acc) # "none" /\ Dereferences(acc) \notin o.set
    THEN {"ub"}
    ELSE {"ok"}

FinAccess(acc) ==
    /\ ~FinHalted
    /\ acc \in AccessorsOf(obj.cls)
    /\ \E out \in AccessOutcomes(obj, acc) :
          finLast' = [op |-> "access", acc |-> acc, outcome |-> out]
    /\ UNCHANGED <<obj, epsVars, stoneVars, muxVars, laterVars>>

\* The copy constructor of each parameter class. EclMultiplexerMaterialParams
\* defines its own: the EnsureFinalized base is default-constructed
\* (finalized_ false), realParams_ starts null and setApproach(other.approach())
\* allocates a new, default-constructed parameter object. The other classes
\* have the implicit one, which copies every member.
CopyCtor(o) ==
    IF o.cls = "EclMultiplexerMaterialParams"
    THEN [FinDefault(o.cls) EXCEPT !.approach_ = o.approach_]
    ELSE o

\* const Params copy(obj): the program goes on with the copy.
FinCopy ==
    /\ ~FinHalted
    /\ obj' = CopyCtor(obj)
    /\ finLast' = [FinNone EXCEPT !.op = "copy"]
    /\ UNCHANGED <<epsVars, stoneVars, muxVars, laterVars>>

(***************************************************************************)
(* EclEpsScalingPointsInfo and EclEpsScalingPoints                         *)
(***************************************************************************)
NumInfos == 1
InfoDen == 100
MaxSets == 1

\* The members of EclEpsScalingPointsInfo, in the order of their declaration.
InfoFields ==
    <<"Swl", "Sgl", "Sowl", "Sogl", "krCriticalEps", "Swcr", "Sgcr", "Sowcr",
      "Sogcr", "Swu", "Sgu", "Sowu", "Sogu", "maxPcow", "maxPcgo",
      "pcowLeverettFactor", "pcgoLeverettFactor", "maxKrw", "maxKrow",
      "maxKrog", "maxKrg">>

InfoFieldSet == {InfoFields[i] : i \in 1..Len(InfoFields)}

\* The k-th EclEpsScalingPointsInfo handed to the program: its i-th member
\* is i (i + k) / InfoDen, so that no two members have the same value.
EpsInfos ==
    [k \in 1..NumInfos |->
        [f \in InfoFieldSet |->
            LET i == CHOOSE j \in 1..Len(InfoFields) : InfoFields[j] = f
            IN Rat(i * (i + k), InfoDen)]]

EpsInfo(k) == EpsInfos[k]

\* A Scalar member that has not been written since the object was created
\* (EclEpsScalingPoints declares no constructor).
Uninit == [k |-> "indet", n |-> 0, d |-> 1]

PtsDefault ==
    [maxPcnwOrLeverettFactor_ |-> Uninit, maxKrw_ |-> Uninit,
     maxKrn_ |-> Uninit,
     saturationPcPoints_ |-> <<Uninit, Uninit>>,
     saturationKrwPoints_ |-> <<Uninit, Uninit, Uninit>>,
     saturationKrnPoints_ |-> <<Uninit, Uninit, Uninit>>]

\* The configurations init reads: the flags it does not read are false.
PtsConfigs ==
    {c \in [EpsFlags -> BOOLEAN] :
        ~c.enableSatScaling_ /\ ~c.enableKrwScaling_ /\ ~c.enableKrnScaling_}

\* Faulty variant of InitOilWaterPoints: the krn points are stored in the order of
\* the Eclipse documentation (oil saturations), not reversed and complemented.
InitOilWaterPointsKrnAsDocumented(p, epsInfo, three) ==
    [p EXCEPT
       !.saturationPcPoints_ = <<epsInfo.Swl, epsInfo.Swu>>,
       !.saturationKrwPoints_ =
           IF three
           THEN <<epsInfo.Swcr,
                  Sub(Sub(One, epsInfo.Sowcr), epsInfo.Sgl), epsInfo.Swu>>
           ELSE <<epsInfo.Swcr, epsInfo.Swu, @[3]>>,
       !.saturationKrnPoints_ =
           IF three
           THEN <<epsInfo.Sowcr,
                  Sub(Sub(One, epsInfo.Swcr), epsInfo.Sgl),
                  Sub(Sub(One, epsInfo.Swl), epsInfo.Sgl)>>
           ELSE <<epsInfo.Sowcr,
                  Sub(Sub(One, epsInfo.Swl), epsInfo.Sgl), @[3]>>]

\* Faulty variant of InitOilWaterPoints: the krw points start at the connate
\* water saturation, not at the critical one.
InitOilWaterPointsKrwFromSwl(p, epsInfo, three) ==
    [p EXCEPT
       !.saturationPcPoints_ = <<epsInfo.Swl, epsInfo.Swu>>,
       !.saturationKrwPoints_ =
           IF three
           THEN <<epsInfo.Swl,
                  Sub(Sub(One, epsInfo.Sowcr), epsInfo.Sgl), epsInfo.Swu>>
           ELSE <<epsInfo.Swl, epsInfo.Swu, @[3]>>,
       !.saturationKrnPoints_ =
           IF three
           THEN <<Add(epsInfo.Swl, epsInfo.Sgl),
                  Add(epsInfo.Swcr, epsInfo.Sgl),
                  Sub(One, epsInfo.Sowcr)>>
           ELSE <<Add(epsInfo.Swl, epsInfo.Sgl),
                  Sub(One, epsInfo.Sowcr), @[3]>>]

\* init, oil-water branch: the saturation points. In 2-point mode the third
\* element of the relperm arrays is not written.
InitOilWaterPoints(p, epsInfo, three) ==
    [p EXCEPT
       !.saturationPcPoints_ = <<epsInfo.Swl, epsInfo.Swu>>,
       !.saturationKrwPoints_ =
           IF three
           THEN <<epsInfo.Swcr,
                  Sub(Sub(One, epsInfo.Sowcr), epsInfo.Sgl), epsInfo.Swu>>
           ELSE <<epsInfo.Swcr, epsInfo.Swu, @[3]>>,
       !.saturationKrnPoints_ =
           IF three
           THEN <<Add(epsInfo.Swl, epsInfo.Sgl),
                  Add(epsInfo.Swcr, epsInfo.Sgl),
                  Sub(One, epsInfo.Sowcr)>>
           ELSE <<Add(epsInfo.Swl, epsInfo.Sgl),
                  Sub(One, epsInfo.Sowcr), @[3]>>]

\* Faulty variant of InitGasOilPoints: the capillary-pressure points are the gas
\* saturations themselves, not their complements.
InitGasOilPointsPcNotComplemented(p, epsInfo, three) ==
    [p EXCEPT
       !.saturationPcPoints_ = <<epsInfo.Sgl, epsInfo.Sgu>>,
       !.saturationKrwPoints_ =
           IF three
           THEN <<epsInfo.Sogcr,
                  Sub(Sub(One, epsInfo.Sgcr), epsInfo.Swl),
                  Sub(Sub(One, epsInfo.Swl), epsInfo.Sgl)>>
           ELSE <<epsInfo.Sogcr,
                  Sub(Sub(One, epsInfo.Swl), epsInfo.Sgl), @[3]>>,
       !.saturationKrnPoints_ =
           IF three
           THEN <<Sub(One, epsInfo.Sgu),
                  Add(epsInfo.Sogcr, epsInfo.Swl),
                  Sub(One, epsInfo.Sgcr)>>
           ELSE <<Sub(One, epsInfo.Sgu), Sub(One, epsInfo.Sgcr), @[3]>>]

\* Faulty variant of InitGasOilPoints: the two-point krn points are not
\* reversed.
InitGasOilPointsKrnNotReversed(p, epsInfo, three) ==
    [p EXCEPT
       !.saturationPcPoints_ = <<Sub(One, epsInfo.Sgu), Sub(One, epsInfo.Sgl)>>,
       !.saturationKrwPoints_ =
           IF three
           THEN <<epsInfo.Sogcr,
                  Sub(Sub(One, epsInfo.Sgcr), epsInfo.Swl),
                  Sub(Sub(One, epsInfo.Swl), epsInfo.Sgl)>>
           ELSE <<epsInfo.Sogcr,
                  Sub(Sub(One, epsInfo.Swl), epsInfo.Sgl), @[3]>>,
       !.saturationKrnPoints_ =
           IF three
           THEN <<Sub(One, epsInfo.Sgu),
                  Add(epsInfo.Sogcr, epsInfo.Swl),
                  Sub(One, epsInfo.Sgcr)>>
           ELSE <<Sub(One, epsInfo.Sgcr), Sub(One, epsInfo.Sgu), @[3]>>]

\* init, gas-oil branch: the saturation points.
InitGasOilPoints(p, epsInfo, three) ==
    [p EXCEPT
       !.saturationPcPoints_ = <<Sub(One, epsInfo.Sgu), Sub(One, epsInfo.Sgl)>>,
       !.saturationKrwPoints_ =
           IF three
           THEN <<epsInfo.Sogcr,
                  Sub(Sub(One, epsInfo.Sgcr), epsInfo.Swl),
                  Sub(Sub(One, epsInfo.Swl), epsInfo.Sgl)>>
           ELSE <<epsInfo.Sogcr,
                  Sub(Sub(One, epsInfo.Swl), epsInfo.Sgl), @[3]>>,
       !.saturationKrnPoints_ =
           IF three
           THEN <<Sub(One, epsInfo.Sgu),
                  Add(epsInfo.Sogcr, epsInfo.Swl),
                  Sub(One, epsInfo.Sgcr)>>
           ELSE <<Sub(One, epsInfo.Sgu), Sub(One, epsInfo.Sgcr), @[3]>>]

\* Faulty variant of InitMaxima: the Leverett factor is stored only when
\* capillary-pressure scaling is disabled.
InitMaximaPcScalingFirst(p, epsInfo, config, epsSystemType) ==
    LET lev == config.enableLeverettScaling_ /\ ~config.enablePcScaling_
    IN IF epsSystemType = "EclOilWaterSystem"
       THEN [p EXCEPT !.maxPcnwOrLeverettFactor_ =
                          IF lev THEN epsInfo.pcowLeverettFactor
                                 ELSE epsInfo.maxPcow,
                      !.maxKrw_ = epsInfo.maxKrw,
                      !.maxKrn_ = epsInfo.maxKrow]
       ELSE [p EXCEPT !.maxPcnwOrLeverettFactor_ =
                          IF lev THEN epsInfo.pcgoLeverettFactor
                                 ELSE epsInfo.maxPcgo,
                      !.maxKrw_ = epsInfo.maxKrog,
                      !.maxKrn_ = epsInfo.maxKrg]

\* init, both branches: the maxima.
InitMaxima(p, epsInfo, config, epsSystemType) ==
    IF epsSystemType = "EclOilWaterSystem"
    THEN [p EXCEPT !.maxPcnwOrLeverettFactor_ =
                       IF config.enableLeverettScaling_
                       THEN epsInfo.pcowLeverettFactor
                       ELSE epsInfo.maxPcow,
                   !.maxKrw_ = epsInfo.maxKrw,
                   !.maxKrn_ = epsInfo.maxKrow]
    ELSE [p EXCEPT !.maxPcnwOrLeverettFactor_ =
                       IF config.enableLeverettScaling_
                       THEN epsInfo.pcgoLeverettFactor
                       ELSE epsInfo.maxPcgo,
                   !.maxKrw_ = epsInfo.maxKrog,
                   !.maxKrn_ = epsInfo.maxKrg]

\* EclEpsScalingPoints::init
ScalingPointsInit(p, epsInfo, config, epsSystemType) ==
    LET three == config.enableThreePointKrSatScaling_
        q == IF epsSystemType = "EclOilWaterSystem"
             THEN InitOilWaterPoints(p, epsInfo, three)
             ELSE InitGasOilPoints(p, epsInfo, three)
    IN InitMaxima(q, epsInfo, config, epsSystemType)

\* Faulty variant of PtsSetters: setMaxKrn writes the wetting-phase maximum.
PtsSettersMaxKrnWritesKrw ==
    [setSaturationPcPoint |-> "saturationPcPoints_",
     setSaturationKrwPoint |-> "saturationKrwPoints_",
     setSaturationKrnPoint |-> "saturationKrnPoints_",
     setMaxPcnw |-> "maxPcnwOrLeverettFactor_",
     setLeverettFactor |-> "maxPcnwOrLeverettFactor_",
     setMaxKrw |-> "maxKrw_",
     setMaxKrn |-> "maxKrw_"]

\* The set* methods and the member each of them writes; pointIdx is an index
\* of the array (0 for the scalar members).
PtsSetters ==
    [setSaturationPcPoint |-> "saturationPcPoints_",
     setSaturationKrwPoint |-> "saturationKrwPoints_",
     setSaturationKrnPoint |-> "saturationKrnPoints_",
     setMaxPcnw |-> "maxPcnwOrLeverettFactor_",
     setLeverettFactor |-> "maxPcnwOrLeverettFactor_",
     setMaxKrw |-> "maxKrw_",
     setMaxKrn |-> "maxKrn_"]

\* The const accessors and the member each of them returns.
PtsGetters ==
    [saturationPcPoints |-> "saturationPcPoints_",
     saturationKrwPoints |-> "saturationKrwPoints_",
     saturationKrnPoints |-> "saturationKrnPoints_",
     maxPcnw |-> "maxPcnwOrLeverettFactor_",
     leverettFactor |-> "maxPcnwOrLeverettFactor_",
     maxKrw |-> "maxKrw_",
     maxKrn |-> "maxKrn_"]

ArrayMembers ==
    {"saturationPcPoints_", "saturationKrwPoints_", "saturationKrnPoints_"}

PtsNone == [op |-> "none", name |-> "none", info |-> 0,
            sys |-> "none", three |-> FALSE, lev |-> FALSE, pcs |-> FALSE,
            ret |-> <<>>, nsets |-> 0]

PtsInit(k, config, epsSystemType) ==
    /\ pts' = ScalingPointsInit(pts, EpsInfo(k), config, epsSystemType)
    /\ ptsLast' = [PtsNone EXCEPT
                     !.op = "init", !.name = "init", !.info = k,
                     !.sys = epsSystemType,
                     !.three = config.enableThreePointKrSatScaling_,
                     !.lev = config.enableLeverettScaling_,
                     !.pcs = config.enablePcScaling_,
                     !.nsets = ptsLast.nsets]
    /\ UNCHANGED <<coreVars, lawVars, infoVars, treeVars, adVars, hcVars, tmVars, owVars, ordVars>>

\* setSaturationPcPoint, setSaturationKrwPoint, setSaturationKrnPoint,
\* setMaxPcnw, setLeverettFactor, setMaxKrw, setMaxKrn
PtsSet(name, pointIdx, value) ==
    LET m == PtsSetters[name]
    IN /\ ptsLast.nsets < MaxSets
       /\ IF m \in ArrayMembers
          THEN /\ pointIdx + 1 \in DOMAIN pts[m]
               /\ pts' = [pts EXCEPT ![m][pointIdx + 1] = value]
          ELSE /\ pointIdx = 0
               /\ pts' = [pts EXCEPT ![m] = value]
       /\ ptsLast' = [PtsNone EXCEPT !.op = "set", !.name = name,
                                     !.nsets = ptsLast.nsets + 1]
       /\ UNCHANGED <<coreVars, lawVars, infoVars, treeVars, adVars, hcVars, tmVars, owVars, ordVars>>

\* saturationPcPoints(), saturationKrwPoints(), saturationKrnPoints(),
\* maxPcnw(), leverettFactor(), maxKrw(), maxKrn()
PtsGet(name) ==
    /\ ptsLast' = [PtsNone EXCEPT !.op = "get", !.name = name,
                                  !.ret = <<pts[PtsGetters[name]]>>,
                                  !.nsets = ptsLast.nsets]
    /\ UNCHANGED <<pts, coreVars, lawVars, infoVars, treeVars, adVars, hcVars, tmVars, owVars, ordVars>>

(***************************************************************************)
(* EclEpsTwoPhaseLawParams: the scaled and the unscaled points             *)
(***************************************************************************)
NumLawObjs == 2

\* The EclEpsTwoPhaseLawParams objects of the program.
LawObjs == 1..NumLawObjs
\* The EclEpsScalingPoints objects the caller holds through shared_ptr and
\* passes to setUnscaledPoints and setScaledPoints.
CallerPoints == {"regionPoints", "cellPoints"}
\* The content of an EclEpsScalingPoints object (all its members as one).
PointsContent == {"A", "B"}

\* EclEpsTwoPhaseLawParams(): unscaledPoints_ is an empty shared_ptr and
\* scaledPoints_ a default-initialized EclEpsScalingPoints.
LawParamsDefault == [unscaledPoints_ |-> Null, scaledPoints_ |-> Indet]

LawNone == [op |-> "none", obj |-> 0, ret |-> "none"]

\* setUnscaledPoints(value): unscaledPoints_ = value
LawSetUnscaledPoints(i, value) ==
    /\ lp' = [lp EXCEPT ![i].unscaledPoints_ = value]
    /\ lpLast' = [LawNone EXCEPT !.op = "setUnscaledPoints", !.obj = i]
    /\ UNCHANGED <<spHeap, coreVars, ptsVars, infoVars, treeVars, adVars, hcVars, tmVars, owVars, ordVars>>

\* setScaledPoints(value): scaledPoints_ = *value
LawSetScaledPoints(i, value) ==
    /\ lp' = [lp EXCEPT ![i].scaledPoints_ = spHeap[value]]
    /\ lpLast' = [LawNone EXCEPT !.op = "setScaledPoints", !.obj = i]
    /\ UNCHANGED <<spHeap, coreVars, ptsVars, infoVars, treeVars, adVars, hcVars, tmVars, owVars, ordVars>>

\* Faulty variant of WriteScaledPoints: scaledPoints_ is one object for all the
\* parameter objects.
WriteScaledPointsOfAll(l, i, content) ==
    [j \in DOMAIN l |-> [l[j] EXCEPT !.scaledPoints_ = content]]

\* A write through the reference the non-const scaledPoints() returns.
WriteScaledPoints(l, i, content) ==
    [l EXCEPT ![i].scaledPoints_ = content]

\* scaledPoints().init(...) or scaledPoints().set*(...)
LawScaledPointsWrite(i, content) ==
    /\ lp' = WriteScaledPoints(lp, i, content)
    /\ lpLast' = [LawNone EXCEPT !.op = "scaledPoints.write", !.obj = i]
    /\ UNCHANGED <<spHeap, coreVars, ptsVars, infoVars, treeVars, adVars, hcVars, tmVars, owVars, ordVars>>

\* The caller changes one of its EclEpsScalingPoints objects (init or set*).
CallerPointsWrite(q, content) ==
    /\ spHeap' = [spHeap EXCEPT ![q] = content]
    /\ lpLast' = [LawNone EXCEPT !.op = "caller.write"]
    /\ UNCHANGED <<lp, coreVars, ptsVars, infoVars, treeVars, adVars, hcVars, tmVars, owVars, ordVars>>

\* scaledPoints() const: returns scaledPoints_
LawScaledPoints(i) ==
    /\ lpLast' = [op |-> "scaledPoints", obj |-> i,
                  ret |-> lp[i].scaledPoints_]
    /\ UNCHANGED <<lp, spHeap, coreVars, ptsVars, infoVars, treeVars, adVars, hcVars, tmVars, owVars, ordVars>>

\* unscaledPoints() const: returns *unscaledPoints_ (undefined if it is
\* empty).
LawUnscaledPoints(i) ==
    /\ lpLast' = [op |-> "unscaledPoints", obj |-> i,
                  ret |-> IF lp[i].unscaledPoints_ = Null
                          THEN "ub" ELSE spHeap[lp[i].unscaledPoints_]]
    /\ UNCHANGED <<lp, spHeap, coreVars, ptsVars, infoVars, treeVars, adVars, hcVars, tmVars, owVars, ordVars>>

(***************************************************************************)
(* EclEpsScalingPointsInfo::extractScaled                                  *)
(***************************************************************************)
\* The members extractScaled may overwrite and, for each, the grid property
\* (member compressed... of EclEpsGridProperties) it is taken from, in the
\* order of the calls.
ScaledFrom ==
    <<<<"Swl", "Swl">>, <<"Sgl", "Sgl">>, <<"Swcr", "Swcr">>,
      <<"Sgcr", "Sgcr">>, <<"Sowcr", "Sowcr">>, <<"Sogcr", "Sogcr">>,
      <<"Swu", "Swu">>, <<"Sgu", "Sgu">>, <<"maxPcow", "Pcw">>,
      <<"maxPcgo", "Pcg">>, <<"maxKrw", "Krw">>, <<"maxKrg", "Krg">>,
      <<"maxKrow", "Kro">>, <<"maxKrog", "Kro">>>>

GridProps == {ScaledFrom[i][2] : i \in 1..Len(ScaledFrom)}

\* The value of grid property g in the cell: (2 j + 1) / (2 InfoDen) for
\* the j-th property, which no member of an unscaled info has.
CellValues ==
    [g \in GridProps |->
        LET j == CHOOSE i \in 1..Len(ScaledFrom) : ScaledFrom[i][2] = g
        IN Rat(2 * j + 1, 2 * InfoDen)]

CellValue(g) == CellValues[g]

\* The grid property of each member extractScaled may overwrite.
PropertyOfMember ==
    [f \in {ScaledFrom[i][1] : i \in 1..Len(ScaledFrom)} |->
        ScaledFrom[CHOOSE i \in 1..Len(ScaledFrom) : ScaledFrom[i][1] = f][2]]

\* Faulty variant of ExtractGridPropertyValue: an absent property resets the target.
ExtractGridPropertyValueOrZero(targetValue, present, g) ==
    IF ~present THEN Zero ELSE CellValue(g)

\* extractGridPropertyValue_: the target keeps its value if propData is
\* empty and becomes propData[activeCellIdx] otherwise.
ExtractGridPropertyValue(targetValue, present, g) ==
    IF ~present THEN targetValue ELSE CellValue(g)

\* What extractScaled reads of the JFUNC keyword: useJFunc(), flag() and
\* whether direction() is one of X, Y, Z, XY.
JFuncs ==
    {[use |-> FALSE, flag |-> "BOTH", legalDir |-> TRUE]}
    \cup [use : {TRUE}, flag : JFuncFlag, legalDir : BOOLEAN]

\* The Leverett factors commonFactor*gamma*Uconst of the two systems stand
\* as 2 (oil-water) and 3 (gas-oil).
ExtractScaled(e, props, jf) ==
    LET over == [f \in InfoFieldSet |->
                   IF f \in DOMAIN PropertyOfMember
                   THEN ExtractGridPropertyValue(
                            e[f], PropertyOfMember[f] \in props,
                            PropertyOfMember[f])
                   ELSE e[f]]
        one == [over EXCEPT !.pcowLeverettFactor = One,
                            !.pcgoLeverettFactor = One]
    IN IF ~jf.use \/ ~jf.legalDir
       THEN one
       ELSE [one EXCEPT
               !.pcowLeverettFactor =
                   IF jf.flag \in {"WATER", "BOTH"} THEN Two ELSE @,
               !.pcgoLeverettFactor =
                   IF jf.flag \in {"GAS", "BOTH"} THEN Three ELSE @]

InfoNone == [op |-> "none", k |-> 1, props |-> {}, threw |-> FALSE]

\* scaledInfo.extractScaled(eclState, epsProperties, activeIndex) on an info
\* that holds the unscaled values; it throws for an illegal JFUNC direction,
\* after the members have been written.
InfoExtractScaled(props, jf) ==
    /\ infoLast.op = "none"
    /\ info' = ExtractScaled(info, props, jf)
    /\ infoLast' = [op |-> "extractScaled", k |-> infoLast.k, props |-> props,
                    threw |-> jf.use /\ ~jf.legalDir]
    /\ UNCHANGED <<coreVars, ptsVars, lawVars, treeVars, adVars, hcVars, tmVars, owVars, ordVars>>

(***************************************************************************)
(* EclStone1Material on a tree of parameter objects: updateHysteresis, the *)
(* inverse queries and the operations on finalized parameters              *)
(***************************************************************************)
\* Saturations of the fluid states handed to updateHysteresis and the
\* connate water saturations set on the tree.
TreeSats == {Rat(1, SatDen), One}
TreeSwl == {Zero, Rat(1, SatDen)}

\* The hysteresis saturations of a nested two-phase parameter object that
\* was never updated.
NeverUpdated == [pcSw |-> Uninit, krwSw |-> Uninit, krnSw |-> Uninit]

\* update(pcSw, krwSw, krnSw) of a nested two-phase parameter object: the
\* object takes the three saturations.
NestedUpdate(n, pcSw, krwSw, krnSw) ==
    [n EXCEPT !.pcSw = pcSw, !.krwSw = krwSw, !.krnSw = krnSw]

\* Faulty variant of UpdateHysteresisCalls: the gas-oil object is updated
\* with Sg, not with 1 - Sg.
UpdateHysteresisCallsWithSg(params, Sw, Sg) ==
    <<[target |-> params.oilWaterParams_, pcSw |-> Sw, krwSw |-> Sw, krnSw |-> Sw],
      [target |-> params.gasOilParams_, pcSw |-> Sg, krwSw |-> Sg, krnSw |-> Sg]>>

\* EclStone1Material::updateHysteresis: the update calls it makes, in order.
UpdateHysteresisCalls(params, Sw, Sg) ==
    <<[target |-> params.oilWaterParams_, pcSw |-> Sw, krwSw |-> Sw, krnSw |-> Sw],
      [target |-> params.gasOilParams_, pcSw |-> Sub(One, Sg),
       krwSw |-> Sub(One, Sg), krnSw |-> Sub(One, Sg)]>>

\* The nested objects after the update calls of a sequence were made.
RECURSIVE AfterCalls(_, _)
AfterCalls(nested, calls) ==
    IF calls = <<>> THEN nested
    ELSE LET c == Head(calls)
         IN AfterCalls([nested EXCEPT ![c.target] =
                            NestedUpdate(@, c.pcSw, c.krwSw, c.krnSw)],
                       Tail(calls))

InverseQueries == {"saturations", "Sg", "Sn", "Sw"}

\* Faulty variant of InverseQuery: Sn() returns a saturation.
InverseQuerySnReturns(q) ==
    IF q = "Sn" THEN [status |-> "ok", what |-> ""]
    ELSE [status |-> "logic_error", what |-> "Not implemented: " \o q \o "()"]

\* EclStone1Material::saturations, Sg, Sn and Sw: OPM_THROW of a
\* std::logic_error.
InverseQuery(q) ==
    [status |-> "logic_error", what |-> "Not implemented: " \o q \o "()"]

TreeNone == [op |-> "ctor", status |-> "ok", what |-> "", Sw |-> Zero,
             Sg |-> Zero, calls |-> <<>>]

\* The tree after construction: an EclStone1MaterialParams object whose
\* scalars are not initialized and the nested parameter objects the setters
\* can attach to it.
TreeCtor ==
    [params : {p \in Stone1ParamsCtor : p.Swl_ \in TreeSwl},
     nested : {[p \in LawParams |-> NeverUpdated]}]

TreeAlive == treeLast.status # "crashed"

\* Faulty variant of SetSwl: the setter takes the finalized mark back.
SetSwlUnfinalizes(params, val) ==
    [params EXCEPT !.Swl_ = val, !.finalized_ = FALSE]

\* EclStone1MaterialParams::setSwl: no check of finalized_, no other member
\* written.
SetSwl(params, val) == [params EXCEPT !.Swl_ = val]

\* setSwl(val)
TreeSetSwl(val) ==
    /\ TreeAlive
    /\ tree' = [tree EXCEPT !.params = SetSwl(@, val)]
    /\ treeLast' = [TreeNone EXCEPT !.op = "setSwl"]
    /\ UNCHANGED <<coreVars, ptsVars, lawVars, infoVars, adVars, hcVars, tmVars, owVars, ordVars>>

\* setEta(val)
TreeSetEta(val) ==
    /\ TreeAlive
    /\ tree' = [tree EXCEPT !.params.eta_ = val]
    /\ treeLast' = [TreeNone EXCEPT !.op = "setEta"]
    /\ UNCHANGED <<coreVars, ptsVars, lawVars, infoVars, adVars, hcVars, tmVars, owVars, ordVars>>

\* setOilWaterParams(val)
TreeSetOilWaterParams(val) ==
    /\ TreeAlive
    /\ tree' = [tree EXCEPT !.params.oilWaterParams_ = val]
    /\ treeLast' = [TreeNone EXCEPT !.op = "setOilWaterParams"]
    /\ UNCHANGED <<coreVars, ptsVars, lawVars, infoVars, adVars, hcVars, tmVars, owVars, ordVars>>

\* setGasOilParams(val)
TreeSetGasOilParams(val) ==
    /\ TreeAlive
    /\ tree' = [tree EXCEPT !.params.gasOilParams_ = val]
    /\ treeLast' = [TreeNone EXCEPT !.op = "setGasOilParams"]
    /\ UNCHANGED <<coreVars, ptsVars, lawVars, infoVars, adVars, hcVars, tmVars, owVars, ordVars>>

\* finalize(): dereferences oilWaterParams_ (undefined if it is null: the
\* process crashes or goes on with some krocw_), then sets finalized_.
TreeFinalize ==
    /\ TreeAlive
    /\ IF tree.params.oilWaterParams_ # Null
       THEN /\ tree' = [tree EXCEPT !.params.krocw_ = FinalizeKrocw(tree.params),
                                    !.params.finalized_ = TRUE]
            /\ treeLast' = [TreeNone EXCEPT !.op = "finalize"]
       ELSE \/ /\ treeLast' = [TreeNone EXCEPT !.op = "finalize",
                                               !.status = "crashed"]
               /\ UNCHANGED tree
            \/ /\ tree' = [tree EXCEPT !.params.krocw_ = NaN,
                                       !.params.finalized_ = TRUE]
               /\ treeLast' = [TreeNone EXCEPT !.op = "finalize", !.status = "ub"]
    /\ UNCHANGED <<coreVars, ptsVars, lawVars, infoVars, adVars, hcVars, tmVars, owVars, ordVars>>

\* capillaryPressures and relativePermeabilities on the tree: the parameters
\* are a const reference; the first accessor throws if they are not
\* finalized and a null nested pointer is undefined behaviour (a crash, or
\* some values and no write to the tree).
TreeEvaluate(op) ==
    /\ TreeAlive
    /\ UNCHANGED tree
    /\ IF CheckThrows(tree.params.finalized_)
       THEN treeLast' = [TreeNone EXCEPT !.op = op, !.status = "runtime_error"]
       ELSE IF tree.params.oilWaterParams_ = Null \/ tree.params.gasOilParams_ = Null
       THEN \/ treeLast' = [TreeNone EXCEPT !.op = op, !.status = "crashed"]
            \/ treeLast' = [TreeNone EXCEPT !.op = op, !.status = "ub"]
       ELSE treeLast' = [TreeNone EXCEPT !.op = op]
    /\ UNCHANGED <<coreVars, ptsVars, lawVars, infoVars, adVars, hcVars, tmVars, owVars, ordVars>>

\* saturations(), Sg(), Sn() and Sw(): the parameters and the fluid state
\* are not looked at.
TreeInverse(q) ==
    /\ TreeAlive
    /\ UNCHANGED tree
    /\ treeLast' = [TreeNone EXCEPT !.op = q, !.status = InverseQuery(q).status,
                                    !.what = InverseQuery(q).what]
    /\ UNCHANGED <<coreVars, ptsVars, lawVars, infoVars, adVars, hcVars, tmVars, owVars, ordVars>>

\* updateHysteresis(params, fluidState): the non-const accessor
\* oilWaterParams() checks finalized_ and dereferences the pointer, update
\* runs on the object, then the same for gasOilParams(). A null pointer is
\* undefined behaviour: the process crashes at that call, or the call
\* writes to memory that is none of the tree's and the function goes on.
TreeUpdateHysteresis(Sw, Sg) ==
    LET calls == UpdateHysteresisCalls(tree.params, Sw, Sg)
        made == SelectSeq(calls, LAMBDA c : c.target # Null)
        first == IF calls[1].target = Null THEN <<>> ELSE <<calls[1]>>
        last == [TreeNone EXCEPT !.op = "updateHysteresis", !.Sw = Sw, !.Sg = Sg]
    IN /\ TreeAlive
       /\ IF CheckThrows(tree.params.finalized_)
          THEN /\ treeLast' = [last EXCEPT !.status = "runtime_error"]
               /\ UNCHANGED tree
          ELSE IF made = calls
          THEN /\ tree' = [tree EXCEPT !.nested = AfterCalls(@, calls)]
               /\ treeLast' = [last EXCEPT !.calls = calls]
          ELSE \/ /\ tree' = [tree EXCEPT !.nested = AfterCalls(@, first)]
                  /\ treeLast' = [last EXCEPT !.status = "crashed", !.calls = first]
               \/ /\ tree' = [tree EXCEPT !.nested = AfterCalls(@, made)]
                  /\ treeLast' = [last EXCEPT !.status = "ub", !.calls = made]
       /\ UNCHANGED <<coreVars, ptsVars, lawVars, infoVars, adVars, hcVars, tmVars, owVars, ordVars>>

(***************************************************************************)
(* The endpoint-scaled two-phase law on EclEpsTwoPhaseLawParams            *)
(***************************************************************************)
AdDen == 5

\* The unscaled endpoints of a saturation region: Swl = 0.1, Swu = 0.9,
\* Swcr = 0.2, Sowcr = 0.15, no connate gas, maxima 1.
RegionInfo ==
    [EpsInfo(1) EXCEPT !.Swl = Rat(1, 10), !.Swu = Rat(9, 10),
                       !.Swcr = Rat(2, 10), !.Sowcr = Rat(15, 100),
                       !.Sgl = Zero, !.maxPcow = One, !.maxKrw = One,
                       !.maxKrow = One]

\* The scaled endpoints of a cell whose grid properties override some of them.
CellInfo ==
    [RegionInfo EXCEPT !.Swl = Rat(2, 10), !.Swu = Rat(8, 10),
                       !.Swcr = Rat(3, 10), !.Sowcr = Rat(1, 10),
                       !.maxPcow = Two, !.maxKrw = Rat(1, 2)]

\* The configurations a point set is initialized under.
AdInitConfigs ==
    {[EclEpsConfigCtor EXCEPT !.enableThreePointKrSatScaling_ = b] : b \in BOOLEAN}

\* The scaling point sets of the oil-water system the caller can make.
AdPointsOf(infos) ==
    {ScalingPointsInit(PtsDefault, i, c, "EclOilWaterSystem") :
        i \in infos, c \in AdInitConfigs}

AdUnscaledChoices == AdPointsOf({RegionInfo})
AdScaledChoices == AdPointsOf({RegionInfo, CellInfo})

\* The saturations the law is evaluated at.
AdSats ==
    {Rat(n, AdDen) : n \in 0..AdDen} \cup {RegionInfo.Swcr, CellInfo.Swcr, CellInfo.Swu}

\* The flags the setters are called for.
AdFlags ==
    {"enableSatScaling_", "enableThreePointKrSatScaling_", "enableKrwScaling_",
     "enablePcScaling_"}

AdFns == {"pcnw", "krw", "krn"}

\* The affine map of a saturation from the scaled interval [sc[1], sc[2]] to
\* the unscaled interval [u[1], u[2]].
ScaledToUnscaledSatTwoPoint(s, u, sc) ==
    Add(u[1], Mul(Sub(s, sc[1]), Div(Sub(u[2], u[1]), Sub(sc[2], sc[1]))))

\* The two affine maps of 3-point scaling, below and above the middle point.
ScaledToUnscaledSatThreePoint(s, u, sc) ==
    IF Le(s, sc[2])
    THEN ScaledToUnscaledSatTwoPoint(s, <<u[1], u[2]>>, <<sc[1], sc[2]>>)
    ELSE ScaledToUnscaledSatTwoPoint(s, <<u[2], u[3]>>, <<sc[2], sc[3]>>)

\* The point arrays of a point set that belong to a function of the law.
AdSatPoints(p, fn) ==
    CASE fn = "pcnw" -> p.saturationPcPoints_
      [] fn = "krw" -> p.saturationKrwPoints_
      [] OTHER -> p.saturationKrnPoints_

\* The members of the two point sets an evaluation reads.
AdReads(fn, cfg, u, sc) ==
    LET n == IF fn # "pcnw" /\ cfg.enableThreePointKrSatScaling_ THEN 3 ELSE 2
        sats == IF cfg.enableSatScaling_
                THEN {AdSatPoints(u, fn)[i] : i \in 1..n}
                         \cup {AdSatPoints(sc, fn)[i] : i \in 1..n}
                ELSE {}
        maxs == CASE fn = "pcnw" /\ cfg.enablePcScaling_ ->
                         {sc.maxPcnwOrLeverettFactor_}
                  [] fn = "pcnw" /\ cfg.enableLeverettScaling_ ->
                         {sc.maxPcnwOrLeverettFactor_}
                  [] fn = "krw" /\ cfg.enableKrwScaling_ -> {sc.maxKrw_}
                  [] fn = "krn" /\ cfg.enableKrnScaling_ -> {sc.maxKrn_}
                  [] OTHER -> {}
    IN sats \cup maxs

\* The saturation the raw correlation is evaluated at.
AdapterSat(fn, cfg, u, sc, Sw) ==
    IF ~cfg.enableSatScaling_ THEN Sw
    ELSE IF fn # "pcnw" /\ cfg.enableThreePointKrSatScaling_
    THEN ScaledToUnscaledSatThreePoint(Sw, AdSatPoints(u, fn), AdSatPoints(sc, fn))
    ELSE ScaledToUnscaledSatTwoPoint(Sw, AdSatPoints(u, fn), AdSatPoints(sc, fn))

\* The raw two-phase correlation.
AdRaw(fn, law, Sw) ==
    CASE fn = "pcnw" -> TwoPhaseSatPcnw(law, Sw)
      [] fn = "krw" -> TwoPhaseSatKrw(law, Sw)
      [] OTHER -> TwoPhaseSatKrn(law, Sw)

\* The value of the raw correlation scaled by the stored maximum.
AdapterOut(fn, cfg, sc, raw) ==
    CASE fn = "pcnw" /\ (cfg.enableLeverettScaling_ \/ cfg.enablePcScaling_) ->
             Mul(raw, sc.maxPcnwOrLeverettFactor_)
      [] fn = "krw" /\ cfg.enableKrwScaling_ -> Mul(raw, sc.maxKrw_)
      [] fn = "krn" /\ cfg.enableKrnScaling_ -> Mul(raw, sc.maxKrn_)
      [] OTHER -> raw

\* twoPhaseSatPcnw, twoPhaseSatKrw and twoPhaseSatKrn of the endpoint-scaled
\* law.
AdapterValue(fn, cfg, u, sc, law, Sw) ==
    AdapterOut(fn, cfg, sc, AdRaw(fn, law, AdapterSat(fn, cfg, u, sc, Sw)))

AdNone == [op |-> "ctor", status |-> "ok", fn |-> "none", Sw |-> Zero,
           value |-> Zero, fresh |-> TRUE]

\* EclEpsTwoPhaseLawParams(): the pointers are null (unscaledPoints_ is the
\* empty sequence or holds the point set it names), the scaled points are
\* held by value and not initialized.
AdParamsCtor ==
    [finalized_ |-> FALSE, config_ |-> Null, unscaledPoints_ |-> <<>>,
     scaledPoints_ |-> PtsDefault, effectiveLawParams_ |-> Null]

AdAlive == adLast.status \notin {"assertion_failed", "crashed"}

\* A setter of the EclEpsConfig object the parameters share; fresh tells
\* whether the object is still as its constructor left it.
AdCfgSet(f, yesno) ==
    /\ AdAlive
    /\ adCfg' = SetterFlags(adCfg, f, yesno)
    /\ adLast' = [AdNone EXCEPT !.op = "setEnable", !.fresh = FALSE]
    /\ UNCHANGED <<ad, coreVars, ptsVars, lawVars, infoVars, treeVars, hcVars, tmVars, owVars, ordVars>>

\* setConfig(value) with the shared configuration object.
AdSetConfig ==
    /\ AdAlive
    /\ ad' = [ad EXCEPT !.config_ = "config"]
    /\ adLast' = [AdNone EXCEPT !.op = "setConfig", !.fresh = adLast.fresh]
    /\ UNCHANGED <<adCfg, coreVars, ptsVars, lawVars, infoVars, treeVars, hcVars, tmVars, owVars, ordVars>>

\* setUnscaledPoints(value)
AdSetUnscaledPoints(value) ==
    /\ AdAlive
    /\ ad' = [ad EXCEPT !.unscaledPoints_ = <<value>>]
    /\ adLast' = [AdNone EXCEPT !.op = "setUnscaledPoints", !.fresh = adLast.fresh]
    /\ UNCHANGED <<adCfg, coreVars, ptsVars, lawVars, infoVars, treeVars, hcVars, tmVars, owVars, ordVars>>

\* setScaledPoints(value): the points are copied.
AdSetScaledPoints(value) ==
    /\ AdAlive
    /\ ad' = [ad EXCEPT !.scaledPoints_ = value]
    /\ adLast' = [AdNone EXCEPT !.op = "setScaledPoints", !.fresh = adLast.fresh]
    /\ UNCHANGED <<adCfg, coreVars, ptsVars, lawVars, infoVars, treeVars, hcVars, tmVars, owVars, ordVars>>

\* setEffectiveLawParams(value)
AdSetEffectiveLawParams(value) ==
    /\ AdAlive
    /\ ad' = [ad EXCEPT !.effectiveLawParams_ = value]
    /\ adLast' = [AdNone EXCEPT !.op = "setEffectiveLawParams",
                                !.fresh = adLast.fresh]
    /\ UNCHANGED <<adCfg, coreVars, ptsVars, lawVars, infoVars, treeVars, hcVars, tmVars, owVars, ordVars>>

\* The assertions of EclEpsTwoPhaseLawParams::finalize on the object.
AdFinalizeAsserts(p, cfg) ==
    /\ p.config_ # Null
    /\ cfg.enableSatScaling_ => p.unscaledPoints_ # <<>>
    /\ p.effectiveLawParams_ # Null

\* finalize()
AdFinalize ==
    /\ AdAlive
    /\ IF ~NDEBUG /\ ~AdFinalizeAsserts(ad, adCfg)
       THEN /\ adLast' = [AdNone EXCEPT !.op = "finalize",
                                        !.status = "assertion_failed",
                                        !.fresh = adLast.fresh]
            /\ UNCHANGED ad
       ELSE /\ ad' = [ad EXCEPT !.finalized_ = TRUE]
            /\ adLast' = [AdNone EXCEPT !.op = "finalize", !.fresh = adLast.fresh]
    /\ UNCHANGED <<adCfg, coreVars, ptsVars, lawVars, infoVars, treeVars, hcVars, tmVars, owVars, ordVars>>

\* An evaluation of the law: the accessors of the parameters throw if they
\* are not finalized; a null pointer that is dereferenced and a point that
\* was never written are undefined behaviour (a crash or some value).
AdEvaluate(fn, Sw) ==
    LET last == [AdNone EXCEPT !.op = "evaluate", !.fn = fn, !.Sw = Sw,
                               !.fresh = adLast.fresh]
        u == IF ad.unscaledPoints_ = <<>> THEN PtsDefault
             ELSE ad.unscaledPoints_[1]
        nullRead == \/ ad.config_ = Null
                    \/ ad.effectiveLawParams_ = Null
                    \/ adCfg.enableSatScaling_ /\ ad.unscaledPoints_ = <<>>
    IN /\ AdAlive
       /\ UNCHANGED <<ad, adCfg>>
       /\ IF CheckThrows(ad.finalized_)
          THEN adLast' = [last EXCEPT !.status = "runtime_error"]
          ELSE IF nullRead
          THEN \/ adLast' = [last EXCEPT !.status = "crashed"]
               \/ adLast' = [last EXCEPT !.status = "ub", !.value = NaN]
          ELSE IF Uninit \in AdReads(fn, adCfg, u, ad.scaledPoints_)
          THEN adLast' = [last EXCEPT !.status = "ub", !.value = NaN]
          ELSE adLast' = [last EXCEPT !.value =
                             AdapterValue(fn, adCfg, u,
                                          ad.scaledPoints_,
                                          ad.effectiveLawParams_, Sw)]
       /\ UNCHANGED <<coreVars, ptsVars, lawVars, infoVars, treeVars, hcVars, tmVars, owVars, ordVars>>

(***************************************************************************)
(* EclHysteresisConfig                                                     *)
(***************************************************************************)
MaxSatopts == 2

\* A keyword the deck does not have.
NoKeyword == <<"absent">>

\* The strings of the first item of SATOPTS and std::transform(..., ::toupper)
\* on them.
SatoptsStrings == {"Hyster", "DIRECT"}
ToUpper(str) == IF str = "Hyster" THEN "HYSTER" ELSE str

\* The decks initFromDeck is called with: SATOPTS absent or with up to
\* MaxSatopts values in its first item, the keywords HYST, NOHYKR and NOHYPC
\* present or not, EHYSTR absent or with its relative_perm_hyst and
\* limiting_hyst_flag items.
HcSatopts ==
    {NoKeyword} \cup UNION {[1..n -> SatoptsStrings] : n \in 0..MaxSatopts}
HcEhystr ==
    {NoKeyword} \cup {<<m, flag>> : m \in {1, 2}, flag \in {"KR", "BOTH"}}
HcDecks ==
    [SATOPTS : HcSatopts, HYST : BOOLEAN, EHYSTR : HcEhystr,
     NOHYKR : BOOLEAN, NOHYPC : BOOLEAN]

\* EclHysteresisConfig()
HcCtor == [enableHysteresis_ |-> FALSE, pcHysteresisModel_ |-> 0,
           krHysteresisModel_ |-> 0]

\* Faulty variant of HcEnabled: the HYST keyword is not looked at.
HcEnabledSatoptsOnly(deck) ==
    /\ deck.SATOPTS # NoKeyword
    /\ \E i \in 1..Len(deck.SATOPTS) : ToUpper(deck.SATOPTS[1]) = "HYSTER"

\* initFromDeck, the value of enableHysteresis_ it computes: nothing is
\* looked at without SATOPTS; each round of the loop over the values of the
\* item reads the value at index 0; then the HYST keyword.
HcEnabled(deck) ==
    /\ deck.SATOPTS # NoKeyword
    /\ \/ \E i \in 1..Len(deck.SATOPTS) : ToUpper(deck.SATOPTS[1]) = "HYSTER"
       \/ deck.HYST

\* Faulty variant of HcModels: a relperm model other than 0 and 1 is
\* accepted.
HcModelsAnyKr(c, deck) ==
    LET kr == IF deck.NOHYKR THEN -1 ELSE deck.EHYSTR[1]
        c1 == [c EXCEPT !.krHysteresisModel_ = kr]
    IN IF deck.EHYSTR = NoKeyword THEN [cfg |-> c, threw |-> TRUE]
       ELSE IF deck.NOHYPC \/ deck.EHYSTR[2] = "KR"
       THEN [cfg |-> [c1 EXCEPT !.pcHysteresisModel_ = -1], threw |-> FALSE]
       ELSE [cfg |-> [c1 EXCEPT !.pcHysteresisModel_ = 0], threw |-> TRUE]

\* initFromDeck once hysteresis is enabled: the object it leaves and whether
\* it threw std::runtime_error.
HcModels(c, deck) ==
    LET kr == IF deck.NOHYKR THEN -1 ELSE deck.EHYSTR[1]
        c1 == [c EXCEPT !.krHysteresisModel_ = kr]
    IN IF deck.EHYSTR = NoKeyword THEN [cfg |-> c, threw |-> TRUE]
       ELSE IF ~deck.NOHYKR /\ kr # 0 /\ kr # 1 THEN [cfg |-> c1, threw |-> TRUE]
       ELSE IF deck.NOHYPC \/ deck.EHYSTR[2] = "KR"
       THEN [cfg |-> [c1 EXCEPT !.pcHysteresisModel_ = -1], threw |-> FALSE]
       ELSE [cfg |-> [c1 EXCEPT !.pcHysteresisModel_ = 0], threw |-> TRUE]

\* EclHysteresisConfig::initFromDeck
HcInitFromDeckResult(c, deck) ==
    LET c0 == [c EXCEPT !.enableHysteresis_ = HcEnabled(deck)]
    IN IF ~c0.enableHysteresis_ THEN [cfg |-> c0, threw |-> FALSE]
       ELSE HcModels(c0, deck)

HcNone == [op |-> "ctor", deck |-> NoKeyword, threw |-> FALSE,
           prevPc |-> 0, prevKr |-> 0]

\* setEnableHysteresis, setPcHysteresisModel, setKrHysteresisModel
HcSet(member, value) ==
    /\ hc' = [hc EXCEPT ![member] = value]
    /\ hcLast' = [HcNone EXCEPT !.op = "set"]
    /\ UNCHANGED <<coreVars, ptsVars, lawVars, infoVars, treeVars, adVars, tmVars, owVars, ordVars>>

HcInitFromDeck(deck) ==
    LET res == HcInitFromDeckResult(hc, deck)
    IN /\ hc' = res.cfg
       /\ hcLast' = [op |-> "initFromDeck", deck |-> deck, threw |-> res.threw,
                     prevPc |-> hc.pcHysteresisModel_,
                     prevKr |-> hc.krHysteresisModel_]
       /\ UNCHANGED <<coreVars, ptsVars, lawVars, infoVars, treeVars, adVars, tmVars, owVars, ordVars>>

(***************************************************************************)
(* EclThermalLawManager and the two thermal law multiplexers               *)
(***************************************************************************)
MaxElems == 2

\* What initParamsForElements reads of the deck: whether HEATCR, the SPECROCK
\* tables, THCONR and one of THCROCK, THCOIL, THCGAS, THCWATER are there,
\* the number of elements, the number of saturation regions and SATNUM.
ThermalDecks ==
    UNION {[hasHeatcr : BOOLEAN, hasSpecrock : BOOLEAN, hasThconr : BOOLEAN,
            hasThc : BOOLEAN, numSatRegions : {k},
            satnum : [1..n -> 1..k]] : n \in 1..MaxElems, k \in 1..MaxElems}

\* EclSolidEnergyLawMultiplexerParams() and
\* EclThermalConductionLawMultiplexerParams()
ThermalParamsCtor == [approach |-> "undefinedApproach", finalized_ |-> FALSE]

\* setSolidEnergyApproach or setThermalConductionApproach, the set-up of the
\* real parameter object and finalize() on a multiplexer parameter object.
ThermalParamsSetUp(approach) == [approach |-> approach, finalized_ |-> TRUE]

\* std::vector::resize(n): the first n elements are kept, new elements are
\* default-constructed.
VectorResize(vec, n) ==
    [i \in 1..n |-> IF i <= Len(vec) THEN vec[i] ELSE ThermalParamsCtor]

\* resize(n) has to move the elements to a larger buffer: the defaulted copy
\* constructor copies realParams_, the destructor of the old element deletes
\* the object, and the set...Approach call that follows deletes it again.
ReallocatesOwners(vec, cap, n) ==
    /\ n > cap
    /\ \E i \in 1..Len(vec) : vec[i].approach \notin {"undefinedApproach", "nullApproach"}

\* initNullRockEnergy_ and initNullCond_: resize(1) and finalize() on
\* element 0.
InitNullRockEnergy(vec) ==
    <<[VectorResize(vec, 1)[1] EXCEPT !.finalized_ = TRUE]>>

\* initHeatcr_, initSpecrock_, initThconr_, initThc_: resize(n) and, for
\* every element, set...Approach, the real parameters and finalize().
InitElements(vec, n, approach) == [i \in 1..n |-> ThermalParamsSetUp(approach)]

\* EclThermalLawManager()
TmCtor ==
    [solidEnergyApproach_ |-> "undefinedApproach",
     thermalConductivityApproach_ |-> "undefinedApproach",
     elemToSatnumIdx_ |-> <<>>,
     solidEnergyLawParams_ |-> <<>>, solidCapacity |-> 0,
     thermalConductionLawParams_ |-> <<>>, conductionCapacity |-> 0,
     crashed |-> FALSE]

\* initParamsForElements, the solid energy part.
InitSolidEnergy(m, deck) ==
    LET n == Len(deck.satnum)
    IN IF deck.hasHeatcr
       THEN [m EXCEPT !.solidEnergyApproach_ = "heatcrApproach",
                      !.solidEnergyLawParams_ =
                          InitElements(@, n, "heatcrApproach"),
                      !.solidCapacity = IF n > @ THEN n ELSE @]
       ELSE IF deck.hasSpecrock
       THEN [m EXCEPT !.solidEnergyApproach_ = "specrockApproach",
                      !.elemToSatnumIdx_ = [i \in 1..n |-> deck.satnum[i] - 1],
                      !.solidEnergyLawParams_ =
                          InitElements(@, deck.numSatRegions, "specrockApproach"),
                      !.solidCapacity =
                          IF deck.numSatRegions > @ THEN deck.numSatRegions ELSE @]
       ELSE [m EXCEPT !.solidEnergyApproach_ = "nullApproach",
                      !.solidEnergyLawParams_ = InitNullRockEnergy(@),
                      !.solidCapacity = IF 1 > @ THEN 1 ELSE @]

\* initParamsForElements, the thermal conduction part.
InitConduction(m, deck) ==
    LET n == Len(deck.satnum)
    IN IF deck.hasThconr
       THEN [m EXCEPT !.thermalConductivityApproach_ = "thconrApproach",
                      !.thermalConductionLawParams_ =
                          InitElements(@, n, "thconrApproach"),
                      !.conductionCapacity = IF n > @ THEN n ELSE @]
       ELSE IF deck.hasThc
       THEN [m EXCEPT !.thermalConductivityApproach_ = "thcApproach",
                      !.thermalConductionLawParams_ =
                          InitElements(@, n, "thcApproach"),
                      !.conductionCapacity = IF n > @ THEN n ELSE @]
       ELSE [m EXCEPT !.thermalConductivityApproach_ = "nullApproach",
                      !.thermalConductionLawParams_ = InitNullRockEnergy(@),
                      !.conductionCapacity = IF 1 > @ THEN 1 ELSE @]

\* Whether initParamsForElements deletes an object twice on the way.
InitDeletesTwice(m, deck) ==
    LET n == Len(deck.satnum)
    IN \/ deck.hasHeatcr
          /\ ReallocatesOwners(m.solidEnergyLawParams_, m.solidCapacity, n)
       \/ ~deck.hasHeatcr /\ deck.hasSpecrock
          /\ ReallocatesOwners(m.solidEnergyLawParams_, m.solidCapacity,
                               deck.numSatRegions)
       \/ (deck.hasThconr \/ deck.hasThc)
          /\ ReallocatesOwners(m.thermalConductionLawParams_,
                               m.conductionCapacity, n)

\* solidEnergyLawParams(elemIdx): the element of solidEnergyLawParams_ it
\* returns, a failed assertion or std::runtime_error.
SolidEnergyLawParams(m, elemIdx) ==
    LET vec == m.solidEnergyLawParams_
        satnumIdx == m.elemToSatnumIdx_[elemIdx + 1]
    IN CASE m.solidEnergyApproach_ = "heatcrApproach" ->
                IF elemIdx < Len(vec) THEN <<"params", vec[elemIdx + 1]>>
                ELSE <<"assertion">>
         [] m.solidEnergyApproach_ = "specrockApproach" ->
                IF elemIdx >= Len(m.elemToSatnumIdx_) THEN <<"assertion">>
                ELSE IF satnumIdx >= Len(vec) THEN <<"assertion">>
                ELSE <<"params", vec[satnumIdx + 1]>>
         [] m.solidEnergyApproach_ = "nullApproach" -> <<"params", vec[1]>>
         [] OTHER -> <<"std::runtime_error">>

\* thermalConductionLawParams(elemIdx)
ThermalConductionLawParams(m, elemIdx) ==
    LET vec == m.thermalConductionLawParams_
    IN CASE m.thermalConductivityApproach_ \in {"thconrApproach", "thcApproach"} ->
                IF elemIdx < Len(vec) THEN <<"params", vec[elemIdx + 1]>>
                ELSE <<"assertion">>
         [] m.thermalConductivityApproach_ = "nullApproach" -> <<"params", vec[1]>>
         [] OTHER -> <<"std::runtime_error">>

\* EclSolidEnergyLawMultiplexer::solidInternalEnergy and
\* EclThermalConductionLawMultiplexer::thermalConductivity: the law that is
\* called for the approach of the parameter object, or std::logic_error.
MultiplexerDispatch(params) ==
    CASE params.approach = "heatcrApproach" -> "EclHeatcrLaw"
      [] params.approach = "specrockApproach" -> "EclSpecrockLaw"
      [] params.approach = "thconrApproach" -> "EclThconrLaw"
      [] params.approach = "thcApproach" -> "EclThcLaw"
      [] params.approach = "nullApproach" -> "NullLaw"
      [] OTHER -> "std::logic_error"

\* The outcome of asking the manager for the parameters of an element and
\* evaluating the multiplexer on them.
ThermalEvaluate(lookup) ==
    IF lookup[1] = "params" THEN MultiplexerDispatch(lookup[2]) ELSE lookup[1]

TmNone == [op |-> "ctor", elemIdx |-> 0, outcome |-> "none"]
TmNoDeck == [hasHeatcr |-> FALSE, hasSpecrock |-> FALSE, hasThconr |-> FALSE,
             hasThc |-> FALSE, numSatRegions |-> 0, satnum |-> <<>>]

\* A new EclThermalLawManager (in a new process after a crash).
TmConstruct ==
    /\ tm' = TmCtor
    /\ tmDeck' = TmNoDeck
    /\ tmLast' = TmNone
    /\ UNCHANGED <<coreVars, ptsVars, lawVars, infoVars, treeVars, adVars, hcVars, owVars, ordVars>>

TmInitParamsForElements(deck) ==
    /\ ~tm.crashed
    /\ \E crash \in {c \in BOOLEAN : c => InitDeletesTwice(tm, deck)} :
          /\ tm' = [InitConduction(InitSolidEnergy(tm, deck), deck)
                        EXCEPT !.crashed = crash]
          /\ tmLast' = [TmNone EXCEPT !.op = "initParamsForElements",
                           !.outcome = IF InitDeletesTwice(tm, deck)
                                       THEN "double delete" ELSE "none"]
    /\ tmDeck' = deck
    /\ UNCHANGED <<coreVars, ptsVars, lawVars, infoVars, treeVars, adVars, hcVars, owVars, ordVars>>

TmSolidInternalEnergy(elemIdx) ==
    LET outcome == ThermalEvaluate(SolidEnergyLawParams(tm, elemIdx))
    IN /\ ~tm.crashed
       /\ tm' = [tm EXCEPT !.crashed = (outcome = "assertion")]
       /\ tmLast' = [op |-> "solidInternalEnergy", elemIdx |-> elemIdx,
                     outcome |-> outcome]
       /\ UNCHANGED tmDeck
       /\ UNCHANGED <<coreVars, ptsVars, lawVars, infoVars, treeVars, adVars, hcVars, owVars, ordVars>>

TmThermalConductivity(elemIdx) ==
    LET outcome == ThermalEvaluate(ThermalConductionLawParams(tm, elemIdx))
    IN /\ ~tm.crashed
       /\ tm' = [tm EXCEPT !.crashed = (outcome = "assertion")]
       /\ tmLast' = [op |-> "thermalConductivity", elemIdx |-> elemIdx,
                     outcome |-> outcome]
       /\ UNCHANGED tmDeck
       /\ UNCHANGED <<coreVars, ptsVars, lawVars, infoVars, treeVars, adVars, hcVars, owVars, ordVars>>

(***************************************************************************)
(* The multiplexers that own a heap object through a void pointer:         *)
(* EclSolidEnergyLawMultiplexerParams,                                     *)
(* EclThermalConductionLawMultiplexerParams, GasPvtMultiplexer,            *)
(* OilPvtMultiplexer and WaterPvtMultiplexer                               *)
(***************************************************************************)
NumOwners == 2
MaxObjs == 3

\* The multiplexer objects of the program and the heap objects operator new
\* creates in a run.
Owners == 1..NumOwners
Objs == 1..MaxObjs

ThermalParamsClasses == {"EclSolidEnergyLawMultiplexerParams",
                         "EclThermalConductionLawMultiplexerParams"}
PvtClasses == {"GasPvtMultiplexer", "OilPvtMultiplexer", "WaterPvtMultiplexer"}

\* The enumerators for which the class allocates and deletes an object.
OwningApproaches(cls) ==
    CASE cls = "EclSolidEnergyLawMultiplexerParams" ->
            {"heatcrApproach", "specrockApproach"}
      [] cls = "EclThermalConductionLawMultiplexerParams" ->
            {"thconrApproach", "thcApproach"}
      [] cls = "GasPvtMultiplexer" ->
            {"DryGasPvt", "WetGasPvt", "ThermalGasPvt", "Co2GasPvt"}
      [] cls = "OilPvtMultiplexer" ->
            {"LiveOilPvt", "DeadOilPvt", "ConstantCompressibilityOilPvt",
             "ThermalOilPvt", "BrineCo2Pvt"}
      [] cls = "WaterPvtMultiplexer" ->
            {"ConstantCompressibilityWaterPvt",
             "ConstantCompressibilityBrinePvt", "ThermalWaterPvt"}

\* NoGasPvt, NoOilPvt, NoWaterPvt
NoPvt(cls) ==
    CASE cls = "GasPvtMultiplexer" -> "NoGasPvt"
      [] cls = "OilPvtMultiplexer" -> "NoOilPvt"
      [] cls = "WaterPvtMultiplexer" -> "NoWaterPvt"

\* The pointer member is <<>> while it is not initialized, <<NullPtr>> when
\* null and <<o>> when it points to object o.
NoOwner == [alive |-> FALSE, approach |-> Indet, real |-> <<>>]

\* A heap object: whether operator new has created it, the enumerator it was
\* created for and the number of delete expressions applied to it (2 for
\* more than one).
NoObj == [allocated |-> FALSE, type |-> "none", deletes |-> 0]

OwWorld == [ow |-> ow, heap |-> owHeap]

UnusedObjs(h) == {o \in Objs : ~h[o].allocated}

\* new T for the enumerator approach: the object with the lowest number
\* not yet created.
NewObj(h) == CHOOSE o \in UnusedObjs(h) : \A p \in UnusedObjs(h) : o <= p

OwNew(w, i, approach) ==
    [w EXCEPT !.heap[NewObj(w.heap)] =
                  [allocated |-> TRUE, type |-> approach, deletes |-> 0],
              !.ow[i].real = <<NewObj(w.heap)>>]

\* delete static_cast<T*>(pointer) of multiplexer i; deletes is 0, 1 or 2
\* for more than once.
OwDelete(w, i) ==
    [w EXCEPT !.heap[w.ow[i].real[1]].deletes = IF @ = 0 THEN 1 ELSE 2]

\* The call deletes an object that has already been deleted.
DeletesTwice(w, i, cls) ==
    /\ w.ow[i].approach \in OwningApproaches(cls)
    /\ w.heap[w.ow[i].real[1]].deletes > 0

\* EclSolidEnergyLawMultiplexerParams() and
\* EclThermalConductionLawMultiplexerParams(): realParams_ is not
\* initialized.
TpDefault == [alive |-> TRUE, approach |-> "undefinedApproach", real |-> <<>>]

\* destroy_()
TpDestroy(w, i, cls) ==
    LET w1 == IF w.ow[i].approach \in OwningApproaches(cls)
              THEN OwDelete(w, i) ELSE w
    IN [w1 EXCEPT !.ow[i].approach = "undefinedApproach"]

\* setSolidEnergyApproach and setThermalConductionApproach (the call throws
\* std::logic_error for undefinedApproach, after destroy_()).
TpSetApproachBody(w, i, cls, newApproach) ==
    LET w1 == TpDestroy(w, i, cls)
        w2 == [w1 EXCEPT !.ow[i].approach = newApproach]
    IN IF newApproach \in OwningApproaches(cls) THEN OwNew(w2, i, newApproach)
       ELSE IF newApproach = "nullApproach"
       THEN [w2 EXCEPT !.ow[i].real = <<NullPtr>>]
       ELSE w2

\* The defaulted copy constructor: both members are copied.
TpCopyBody(w, i, j) == [w EXCEPT !.ow[i] = w.ow[j]]

\* GasPvtMultiplexer(), OilPvtMultiplexer(), WaterPvtMultiplexer()
PvtDefault(cls) == [alive |-> TRUE, approach |-> NoPvt(cls), real |-> <<NullPtr>>]

\* setApproach: the switch allocates for the enumerator and throws
\* std::logic_error for No...Pvt; then the approach member is assigned.
PvtSetApproachBody(w, i, cls, appr) ==
    IF appr \in OwningApproaches(cls)
    THEN [OwNew(w, i, appr) EXCEPT !.ow[i].approach = appr]
    ELSE w

\* operator=: the approach is copied and, for an enumerator with an object,
\* the pointer is set to a new copy of the object of data.
PvtAssignBody(w, i, j, cls) ==
    LET w1 == [w EXCEPT !.ow[i].approach = w.ow[j].approach]
    IN IF w1.ow[i].approach \in OwningApproaches(cls)
       THEN OwNew(w1, i, w1.ow[i].approach)
       ELSE w1

\* The destructor: the object of the approach is deleted.
PvtDtorBody(w, i, cls) ==
    LET w1 == IF w.ow[i].approach \in OwningApproaches(cls)
              THEN OwDelete(w, i) ELSE w
    IN [w1 EXCEPT !.ow[i] = NoOwner]

OwNone == [op |-> "none", inst |-> 0, other |-> 0, approach |-> "none",
           outcome |-> "ok"]

\* The state after an operation; deleting an object twice is undefined: the
\* program crashes or goes on.
OwCommit(w, twice, op, i, j, approach, outcome) ==
    /\ ow' = w.ow
    /\ owHeap' = w.heap
    /\ owCrashed' \in {c \in BOOLEAN : c => twice}
    /\ owLast' = [op |-> op, inst |-> i, other |-> j, approach |-> approach,
                  outcome |-> IF twice THEN "double delete" ELSE outcome]
    /\ UNCHANGED owCls
    /\ UNCHANGED <<coreVars, ptsVars, lawVars, infoVars, treeVars, adVars, hcVars, tmVars, ordVars>>

TpCtor(i) ==
    /\ ~owCrashed /\ ~ow[i].alive
    /\ OwCommit([OwWorld EXCEPT !.ow[i] = TpDefault], FALSE, "ctor", i, 0,
                "none", "ok")

TpSetApproach(i, newApproach) ==
    /\ ~owCrashed /\ ow[i].alive
    /\ newApproach \in OwningApproaches(owCls) => UnusedObjs(owHeap) # {}
    /\ OwCommit(TpSetApproachBody(OwWorld, i, owCls, newApproach),
                DeletesTwice(OwWorld, i, owCls), "setApproach", i, 0,
                newApproach,
                IF newApproach = "undefinedApproach" THEN "std::logic_error"
                ELSE "ok")

TpCopyCtor(i, j) ==
    /\ ~owCrashed /\ ~ow[i].alive /\ ow[j].alive
    /\ OwCommit(TpCopyBody(OwWorld, i, j), FALSE, "copy", i, j, "none", "ok")

TpDtor(i) ==
    /\ ~owCrashed /\ ow[i].alive
    /\ OwCommit([TpDestroy(OwWorld, i, owCls) EXCEPT !.ow[i] = NoOwner],
                DeletesTwice(OwWorld, i, owCls), "dtor", i, 0, "none", "ok")

PvtCtor(i) ==
    /\ ~owCrashed /\ ~ow[i].alive
    /\ OwCommit([OwWorld EXCEPT !.ow[i] = PvtDefault(owCls)], FALSE, "ctor",
                i, 0, "none", "ok")

PvtSetApproach(i, appr) ==
    /\ ~owCrashed /\ ow[i].alive
    /\ appr \in OwningApproaches(owCls) => UnusedObjs(owHeap) # {}
    /\ OwCommit(PvtSetApproachBody(OwWorld, i, owCls, appr), FALSE,
                "setApproach", i, 0, appr,
                IF appr = NoPvt(owCls) THEN "std::logic_error" ELSE "ok")

\* The copy constructor: *this = data, on members that are not initialized.
PvtCopyCtor(i, j) ==
    /\ ~owCrashed /\ ~ow[i].alive /\ ow[j].alive
    /\ ow[j].approach \in OwningApproaches(owCls) => UnusedObjs(owHeap) # {}
    /\ OwCommit(PvtAssignBody([OwWorld EXCEPT !.ow[i].alive = TRUE], i, j,
                              owCls),
                FALSE, "copy", i, j, "none", "ok")

PvtAssign(i, j) ==
    /\ ~owCrashed /\ ow[i].alive /\ ow[j].alive
    /\ ow[j].approach \in OwningApproaches(owCls) => UnusedObjs(owHeap) # {}
    /\ OwCommit(PvtAssignBody(OwWorld, i, j, owCls), FALSE, "assign", i, j,
                "none", "ok")

PvtDtor(i) ==
    /\ ~owCrashed /\ ow[i].alive
    /\ OwCommit(PvtDtorBody(OwWorld, i, owCls),
                DeletesTwice(OwWorld, i, owCls), "dtor", i, 0, "none", "ok")

(***************************************************************************)
(* EclEpsScalingPoints::init on endpoint values within the invariant of    *)
(* EclEpsScalingPointsInfo                                                 *)
(***************************************************************************)
OrdDen == 2

\* The saturations of the grid and the triples connate <= critical <= maximum.
OrdSats == {Rat(n, OrdDen) : n \in 0..OrdDen}
OrdTriples ==
    {t \in OrdSats \X OrdSats \X OrdSats : Le(t[1], t[2]) /\ Le(t[2], t[3])}

\* The EclEpsScalingPointsInfo objects init is called with: water and gas
\* endpoints connate <= critical <= maximum, the critical oil saturations
\* anywhere between the oil connate saturations (0) and maxima (1).
OrdInfos ==
    {[EpsInfo(1) EXCEPT !.Swl = w[1], !.Swcr = w[2], !.Swu = w[3],
                        !.Sgl = g[1], !.Sgcr = g[2], !.Sgu = g[3],
                        !.Sowl = Zero, !.Sowcr = sow, !.Sowu = One,
                        !.Sogl = Zero, !.Sogcr = sog, !.Sogu = One] :
        w \in OrdTriples, g \in OrdTriples, sow \in OrdSats, sog \in OrdSats}

\* The configurations of the calls: init reads the three-point flag for the
\* saturation points; the Leverett flag only selects a maximum.
OrdConfigs ==
    {c \in PtsConfigs : ~c.enablePcScaling_ /\ ~c.enableLeverettScaling_}

OrdNone == [op |-> "none", sys |-> "none", three |-> FALSE]

\* EclEpsScalingPoints::init on the object, with the endpoint values drawn.
OrdCallInit(config, epsSystemType) ==
    /\ ordPts' = ScalingPointsInit(ordPts, ordInfo, config, epsSystemType)
    /\ ordLast' = [op |-> "init", sys |-> epsSystemType,
                   three |-> config.enableThreePointKrSatScaling_]
    /\ UNCHANGED ordInfo
    /\ UNCHANGED <<coreVars, ptsVars, lawVars, infoVars, treeVars, adVars, hcVars, tmVars, owVars>>

(***************************************************************************)
(* Specifications                                                          *)
(***************************************************************************)
\* The objects a specification does not exercise stay as constructed.
EpsIdle == eps = EclEpsConfigCtor /\ epsLast = EpsNone

StoneIdle ==
    /\ s1 = [finalized_ |-> FALSE, gasOilParams_ |-> Null,
             oilWaterParams_ |-> Null, Swl_ |-> Zero, eta_ |-> 1,
             krocw_ |-> Zero]
    /\ s1Last = S1None
    /\ s1Crashed = FALSE

MuxIdle ==
    /\ mux = [i \in Inst |-> NoMux]
    /\ heap = [a \in Addr |-> FreeCell]
    /\ muxLast = MuxNone
    /\ muxAborted = FALSE

FinIdle == obj = FinDefault("EclMultiplexerMaterialParams") /\ finLast = FinNone

PtsIdle == pts = PtsDefault /\ ptsLast = PtsNone

CoreIdle == EpsIdle /\ StoneIdle /\ MuxIdle /\ FinIdle
LawIdle ==
    /\ lp = [i \in LawObjs |-> LawParamsDefault]
    /\ spHeap = [q \in CallerPoints |-> "A"]
    /\ lpLast = LawNone

InfoIdle == info = EpsInfo(1) /\ infoLast = InfoNone

TreeIdle ==
    /\ tree = [params |-> [finalized_ |-> FALSE, gasOilParams_ |-> Null,
                           oilWaterParams_ |-> Null, Swl_ |-> Zero,
                           eta_ |-> 1, krocw_ |-> Zero],
               nested |-> [p \in LawParams |-> NeverUpdated]]
    /\ treeLast = TreeNone

AdIdle == ad = AdParamsCtor /\ adCfg = EclEpsConfigCtor /\ adLast = AdNone

HcIdle == hc = HcCtor /\ hcLast = HcNone

TmIdle == tm = TmCtor /\ tmDeck = TmNoDeck /\ tmLast = TmNone

OwIdle ==
    /\ ow = [i \in Owners |-> NoOwner]
    /\ owHeap = [o \in Objs |-> NoObj]
    /\ owCls = "none"
    /\ owCrashed = FALSE
    /\ owLast = OwNone

OrdIdle == ordInfo = EpsInfo(1) /\ ordPts = PtsDefault /\ ordLast = OrdNone

LaterIdle == PtsIdle /\ LawIdle /\ InfoIdle /\ TreeIdle /\ AdIdle /\ HcIdle /\ TmIdle /\ OwIdle /\ OrdIdle

\* EclEpsConfig: construction, the setters and initFromDeck.
EpsInit == EpsIdle /\ StoneIdle /\ MuxIdle /\ FinIdle /\ LaterIdle

EpsNext ==
    \/ \E f \in EpsFlags, yesno \in BOOLEAN : EpsSetEnable(f, yesno)
    \/ \E deck \in Decks, sys \in EclTwoPhaseSystemType : EpsInitFromDeck(deck, sys)

SpecEps == EpsInit /\ [][EpsNext]_vars

\* EclStone1MaterialParams and the evaluation of EclStone1Material on it.
StoneInit ==
    /\ s1 \in Stone1ParamsCtor
    /\ s1Last = S1None
    /\ s1Crashed = FALSE
    /\ EpsIdle /\ MuxIdle /\ FinIdle /\ LaterIdle

StoneNext ==
    \/ \E val \in SwlDom : S1SetSwl(val)
    \/ \E val \in EtaDom : S1SetEta(val)
    \/ \E val \in LawParams \cup {Null} : S1SetOilWaterParams(val)
    \/ \E val \in LawParams \cup {Null} : S1SetGasOilParams(val)
    \/ S1Finalize
    \/ \E Sw \in Sats, Sg \in Sats : S1RelativePermeabilities(Sw, Sg)
    \/ \E Sw \in Sats, Sg \in Sats : S1CapillaryPressures(Sw, Sg)

SpecStone == StoneInit /\ [][StoneNext]_vars

\* EclMultiplexerMaterialParams objects: construction, setApproach, copies,
\* assignment, destruction, getRealParams and the use of the parameter object.
MuxInit == MuxIdle /\ EpsIdle /\ StoneIdle /\ FinIdle /\ LaterIdle

MuxNext ==
    \/ \E i \in Inst : MuxCtor(i)
    \/ \E i \in Inst, t \in Tags : MuxSetApproach(i, t)
    \/ \E i \in Inst, j \in Inst : MuxCopyCtor(i, j)
    \/ \E i \in Inst, j \in Inst : MuxAssign(i, j)
    \/ \E i \in Inst : MuxDtor(i)
    \/ \E i \in Inst, t \in ParamTags : MuxGetRealParams(i, t)
    \/ \E i \in Inst : MuxParamSetOilWaterParams(i)
    \/ \E i \in Inst : MuxParamFinalize(i)

SpecMux == MuxInit /\ [][MuxNext]_vars

\* One object of any parameter class: its setters, finalize() and accessors.
FinInit ==
    /\ obj \in {FinDefault(cls) : cls \in ParamClasses}
    /\ finLast = FinNone
    /\ EpsIdle /\ StoneIdle /\ MuxIdle /\ LaterIdle

FinNext ==
    \/ \E m \in {"gasOilParams_", "oilWaterParams_", "config_",
                 "unscaledPoints_", "effectiveLawParams_"}, sat \in BOOLEAN :
          FinSet(m, sat)
    \/ \E t \in Tags : FinSetApproach(t)
    \/ FinFinalize
    \/ FinCopy
    \/ \E acc \in UNION {AccessorsOf(cls) : cls \in ParamClasses} : FinAccess(acc)

SpecFin == FinInit /\ [][FinNext]_vars

\* One EclEpsScalingPoints object: init, the set* methods and the accessors.
PtsSpecInit == PtsIdle /\ CoreIdle /\ LawIdle /\ InfoIdle /\ TreeIdle /\ AdIdle /\ HcIdle /\ TmIdle /\ OwIdle /\ OrdIdle

PtsNext ==
    \/ \E k \in 1..NumInfos, config \in PtsConfigs,
          epsSystemType \in EclTwoPhaseSystemType :
          PtsInit(k, config, epsSystemType)
    \/ \E name \in DOMAIN PtsSetters, pointIdx \in 0..2 :
          PtsSet(name, pointIdx, Rat(1, 2))
    \/ \E name \in DOMAIN PtsGetters : PtsGet(name)

SpecPts == PtsSpecInit /\ [][PtsNext]_vars

\* EclEpsTwoPhaseLawParams objects and the scaling points of their caller.
LawInit ==
    /\ lp = [i \in LawObjs |-> LawParamsDefault]
    /\ spHeap \in [CallerPoints -> PointsContent]
    /\ lpLast = LawNone
    /\ CoreIdle /\ PtsIdle /\ InfoIdle /\ TreeIdle /\ AdIdle /\ HcIdle /\ TmIdle /\ OwIdle /\ OrdIdle

LawNext ==
    \/ \E i \in LawObjs, q \in CallerPoints : LawSetUnscaledPoints(i, q)
    \/ \E i \in LawObjs, q \in CallerPoints : LawSetScaledPoints(i, q)
    \/ \E i \in LawObjs, c \in PointsContent : LawScaledPointsWrite(i, c)
    \/ \E q \in CallerPoints, c \in PointsContent : CallerPointsWrite(q, c)
    \/ \E i \in LawObjs : LawScaledPoints(i)
    \/ \E i \in LawObjs : LawUnscaledPoints(i)

SpecLaw == LawInit /\ [][LawNext]_vars

\* extractScaled applied once to an info that holds unscaled values.
InfoInit ==
    /\ \E k \in 1..NumInfos :
          info = EpsInfo(k) /\ infoLast = [InfoNone EXCEPT !.k = k]
    /\ CoreIdle /\ PtsIdle /\ LawIdle /\ TreeIdle /\ AdIdle /\ HcIdle /\ TmIdle /\ OwIdle /\ OrdIdle

InfoNext ==
    /\ infoLast.op = "none"
    /\ \E props \in SUBSET GridProps, jf \in JFuncs :
          InfoExtractScaled(props, jf)

SpecInfo == InfoInit /\ [][InfoNext]_vars

\* A tree of Stone-I parameters with its nested two-phase parameter objects:
\* the setters, finalize, the evaluations, the inverse queries and
\* updateHysteresis in any order.
TreeInit ==
    /\ tree \in TreeCtor
    /\ treeLast = TreeNone
    /\ CoreIdle /\ PtsIdle /\ LawIdle /\ InfoIdle /\ AdIdle /\ HcIdle /\ TmIdle /\ OwIdle /\ OrdIdle

TreeNext ==
    \/ \E val \in TreeSwl : TreeSetSwl(val)
    \/ \E val \in EtaDom : TreeSetEta(val)
    \/ \E val \in LawParams \cup {Null} : TreeSetOilWaterParams(val)
    \/ \E val \in LawParams \cup {Null} : TreeSetGasOilParams(val)
    \/ TreeFinalize
    \/ \E op \in {"capillaryPressures", "relativePermeabilities"} : TreeEvaluate(op)
    \/ \E q \in InverseQueries : TreeInverse(q)
    \/ \E Sw \in TreeSats, Sg \in TreeSats : TreeUpdateHysteresis(Sw, Sg)

SpecTree == TreeInit /\ [][TreeNext]_vars

\* An EclEpsTwoPhaseLawParams object with its configuration, its point sets
\* and the raw law, and the endpoint-scaled law evaluated on it.
AdInit ==
    /\ ad = AdParamsCtor
    /\ adCfg = EclEpsConfigCtor
    /\ adLast = AdNone
    /\ CoreIdle /\ PtsIdle /\ LawIdle /\ InfoIdle /\ TreeIdle /\ HcIdle /\ TmIdle /\ OwIdle /\ OrdIdle

AdNext ==
    \/ \E f \in AdFlags, yesno \in BOOLEAN : AdCfgSet(f, yesno)
    \/ AdSetConfig
    \/ \E value \in AdUnscaledChoices : AdSetUnscaledPoints(value)
    \/ \E value \in AdScaledChoices : AdSetScaledPoints(value)
    \/ AdSetEffectiveLawParams("Linear")
    \/ AdFinalize
    \/ \E fn \in AdFns, Sw \in AdSats : AdEvaluate(fn, Sw)

SpecAd == AdInit /\ [][AdNext]_vars

\* An EclHysteresisConfig object: the setters and initFromDeck.
HcInit ==
    /\ hc = HcCtor
    /\ hcLast = HcNone
    /\ CoreIdle /\ PtsIdle /\ LawIdle /\ InfoIdle /\ TreeIdle /\ AdIdle /\ TmIdle /\ OwIdle /\ OrdIdle

HcNext ==
    \/ \E yesno \in BOOLEAN : HcSet("enableHysteresis_", yesno)
    \/ \E value \in {-1, 0} : HcSet("pcHysteresisModel_", value)
    \/ \E value \in {-1, 2} : HcSet("krHysteresisModel_", value)
    \/ \E deck \in HcDecks : HcInitFromDeck(deck)

SpecHc == HcInit /\ [][HcNext]_vars

\* An EclThermalLawManager: initParamsForElements and the two queries, each
\* followed by the evaluation of the multiplexer on the parameters returned.
TmInit ==
    /\ tm = TmCtor
    /\ tmDeck = TmNoDeck
    /\ tmLast = TmNone
    /\ CoreIdle /\ PtsIdle /\ LawIdle /\ InfoIdle /\ TreeIdle /\ AdIdle /\ HcIdle /\ OwIdle /\ OrdIdle

TmNext ==
    \/ TmConstruct
    \/ \E deck \in ThermalDecks : TmInitParamsForElements(deck)
    \/ \E elemIdx \in 0..MaxElems : TmSolidInternalEnergy(elemIdx)
    \/ \E elemIdx \in 0..MaxElems : TmThermalConductivity(elemIdx)

SpecTm == TmInit /\ [][TmNext]_vars

\* Multiplexer parameter objects of one of the two thermal classes.
OwStart(classes) ==
    /\ ow = [i \in Owners |-> NoOwner]
    /\ owHeap = [o \in Objs |-> NoObj]
    /\ owCls \in classes
    /\ owCrashed = FALSE
    /\ owLast = OwNone
    /\ CoreIdle /\ PtsIdle /\ LawIdle /\ InfoIdle /\ TreeIdle /\ AdIdle /\ HcIdle /\ TmIdle /\ OrdIdle

TpInit == OwStart(ThermalParamsClasses)

TpNext ==
    \/ \E i \in Owners : TpCtor(i)
    \/ \E i \in Owners,
          a \in OwningApproaches(owCls) \cup {"undefinedApproach", "nullApproach"} :
          TpSetApproach(i, a)
    \/ \E i, j \in Owners : TpCopyCtor(i, j)
    \/ \E i \in Owners : TpDtor(i)

SpecTp == TpInit /\ [][TpNext]_vars

\* PVT multiplexers of one of the three classes.
PvtInit == OwStart(PvtClasses)

PvtNext ==
    \/ \E i \in Owners : PvtCtor(i)
    \/ \E i \in Owners, a \in OwningApproaches(owCls) \cup {NoPvt(owCls)} :
          PvtSetApproach(i, a)
    \/ \E i, j \in Owners : PvtCopyCtor(i, j)
    \/ \E i, j \in Owners : PvtAssign(i, j)
    \/ \E i \in Owners : PvtDtor(i)

SpecPvt == PvtInit /\ [][PvtNext]_vars

\* One EclEpsScalingPoints object and init calls on it, for each of the
\* endpoint records of OrdInfos.
OrdInit ==
    /\ ordInfo \in OrdInfos
    /\ ordPts = PtsDefault
    /\ ordLast = OrdNone
    /\ CoreIdle /\ PtsIdle /\ LawIdle /\ InfoIdle /\ TreeIdle /\ AdIdle /\ HcIdle /\ TmIdle /\ OwIdle

OrdNext ==
    \E config \in OrdConfigs, epsSystemType \in EclTwoPhaseSystemType :
        OrdCallInit(config, epsSystemType)

SpecOrd == OrdInit /\ [][OrdNext]_vars

(***************************************************************************)
(* Properties                                                              *)
(***************************************************************************)
\* The concrete parameter type of each tag (Stone1Params, Stone2Params,
\* DefaultParams, TwoPhaseParams).
TypeOfTag == [EclStone1Approach |-> "EclStone1MaterialParams",
              EclStone2Approach |-> "EclStone2MaterialParams",
              EclDefaultApproach |-> "EclDefaultMaterialParams",
              EclTwoPhaseApproach |-> "EclTwoPhaseMaterialParams"]

\* A parameter object of tag t as its default constructor leaves it: not
\* finalized, no nested parameters.
DefaultValued(o, t) ==
    o = [live |-> TRUE, type |-> TypeOfTag[t], finalized_ |-> FALSE,
         oilWaterParams_ |-> Null]

\* C1: for T in {Stone1, Stone2, Default, TwoPhase}, setApproach(T) leaves the
\* instance with a default-valued, unfinalized parameter object of T's
\* concrete type; on an instance whose approach is T, getRealParams<T'>() fails
\* its assertion for every T' # T and getRealParams<T>() returns the owned
\* object, which is of T's concrete type.
C1_Discriminator ==
    LET i == muxLast.inst
    IN /\ (muxLast.op = "setApproach" /\ muxLast.result = "ok"
             /\ muxLast.tag \in ParamTags) =>
            /\ mux[i].approach_ = muxLast.tag
            /\ mux[i].realParams_ # NullPtr
            /\ DefaultValued(heap[mux[i].realParams_], muxLast.tag)
       /\ (muxLast.op = "getRealParams" /\ mux[i].approach_ \in ParamTags) =>
            IF muxLast.tag # mux[i].approach_
            THEN muxLast.result = "assertion_failed"
            ELSE /\ muxLast.result = "ok"
                 /\ muxLast.addr = mux[i].realParams_
                 /\ muxLast.addr # NullPtr
                 /\ heap[muxLast.addr].live
                 /\ heap[muxLast.addr].type = TypeOfTag[muxLast.tag]

\* C1 witness: after setApproach(Stone1), getRealParams<Stone2>() has failed
\* its assertion.
C1_Witness ==
    /\ muxLast.op = "getRealParams"
    /\ mux[muxLast.inst].approach_ = "EclStone1Approach"
    /\ muxLast.tag = "EclStone2Approach"
    /\ muxLast.result = "assertion_failed"

\* C2 as stated: a setApproach call on an instance on which setApproach has
\* already selected a tag fails its assertion, whichever tag that was.
C2_SecondCallRejected ==
    (muxLast.op = "setApproach" /\ muxLast.prevTag \in Tags) =>
        muxLast.result = "assertion_failed"

\* C2 as amended: a setApproach call fails its assertion exactly when the
\* instance owns a parameter object, that is, when the tag selected before is
\* Stone1, Stone2, Default or TwoPhase; after setApproach(EclOnePhaseApproach),
\* which allocates nothing, a further setApproach call is accepted.
C2_SecondCallRejectedIfOwning ==
    muxLast.op = "setApproach" =>
        /\ muxLast.result = "assertion_failed" <=> muxLast.prevOwned
        /\ muxLast.prevTag \in ParamTags => muxLast.result = "assertion_failed"
        /\ muxLast.prevTag = "EclOnePhaseApproach" => muxLast.result = "ok"

\* C2 witness: a second setApproach call has failed its assertion on an
\* instance whose first call selected Stone2.
C2_Witness ==
    /\ muxLast.op = "setApproach"
    /\ muxLast.prevTag = "EclStone2Approach"
    /\ muxLast.result = "assertion_failed"

\* C3: an instance whose tag is Stone1, Stone2, Default or TwoPhase owns one
\* live parameter object of the tag's concrete type that no other instance
\* owns; an instance with tag OnePhase, or on which setApproach has not run,
\* owns none.
C3_Ownership ==
    \A i \in Inst : mux[i].alive =>
        LET a == mux[i].realParams_
        IN /\ mux[i].approach_ \in ParamTags =>
                /\ a # NullPtr
                /\ heap[a].live
                /\ heap[a].type = TypeOfTag[mux[i].approach_]
                /\ \A j \in Inst \ {i} : mux[j].alive => mux[j].realParams_ # a
           /\ mux[i].approach_ \in {"EclOnePhaseApproach", Indet} => a = NullPtr

\* C3 witness: after an assignment both instances have tag Stone1 and each
\* owns its own parameter object.
C3_Witness ==
    /\ muxLast.op = "assign"
    /\ \A i \in Inst : mux[i].alive /\ mux[i].approach_ = "EclStone1Approach"
    /\ \E i, j \in Inst : /\ mux[i].realParams_ # NullPtr
                          /\ mux[j].realParams_ # NullPtr
                          /\ mux[i].realParams_ # mux[j].realParams_

\* After a copy construction or an assignment from a source whose approach is
\* set, the target has the tag of the source and, for a tag with parameters, a
\* default-valued, unfinalized parameter object that is not the one of
\* another instance.
C4_CopyIsFresh ==
    LET i == muxLast.inst
        j == muxLast.other
    IN (muxLast.op \in {"copy", "assign"} /\ mux[j].approach_ # Indet) =>
          /\ mux[i].approach_ = mux[j].approach_
          /\ mux[i].approach_ \in ParamTags =>
               /\ mux[i].realParams_ # NullPtr
               /\ DefaultValued(heap[mux[i].realParams_], mux[i].approach_)
               /\ i # j => mux[i].realParams_ # mux[j].realParams_
          /\ mux[i].approach_ \notin ParamTags => mux[i].realParams_ = NullPtr

\* A change made through one instance leaves the parameter object of every
\* other instance as it is.
C4_Independent ==
    \A i \in Inst :
        (muxLast'.op = "param" /\ muxLast'.inst = i) =>
            \A j \in Inst \ {i} :
                (mux[j].alive /\ mux[j].realParams_ # NullPtr) =>
                    heap'[mux[j].realParams_] = heap[mux[j].realParams_]

\* C4: copy construction and assignment give the target the tag of the source
\* and a freshly allocated, default-valued, unfinalized parameter object of
\* its own: nothing set in the source's object is carried over, and a later
\* change to either object leaves the other as it is.
C4_CopyResets == [](C4_CopyIsFresh) /\ [][C4_Independent]_vars

\* C4 witness: a copy has just been constructed from a source whose parameter
\* object has nested parameters set and is finalized; the object of the copy
\* has neither.
C4_Witness ==
    /\ muxLast.op = "copy"
    /\ mux[muxLast.other].realParams_ # NullPtr
    /\ LET src == heap[mux[muxLast.other].realParams_]
           tgt == heap[mux[muxLast.inst].realParams_]
       IN /\ src.finalized_ /\ src.oilWaterParams_ # Null
          /\ mux[muxLast.inst].realParams_ # NullPtr
          /\ ~tgt.finalized_ /\ tgt.oilWaterParams_ = Null

\* The accessors that start with EnsureFinalized::check().
C5_Checked ==
    ({"EclStone1MaterialParams", "EclStone2MaterialParams",
      "EclDefaultMaterialParams"} \X {"gasOilParams", "oilWaterParams", "Swl"})
    \cup ({"EclStone1MaterialParams"} \X {"krocw", "eta"})
    \cup ({"EclTwoPhaseMaterialParams"} \X {"gasOilParams", "oilWaterParams"})

\* C5 as stated: an accessor call on an object of any parameter class ends
\* in a runtime error exactly when finalize() has not been called on it.
C5_EveryAccessorChecks ==
    finLast.op = "access" =>
        (finLast.outcome = "runtime_error" <=> ~obj.finalized_)

\* C5 as amended: gasOilParams(), oilWaterParams() and Swl() of the Stone1,
\* Stone2 and Default parameters, krocw() and eta() of the Stone1 parameters
\* and gasOilParams() and oilWaterParams() of the TwoPhase parameters end in
\* a runtime error exactly when finalize() has not been called; every other
\* accessor (those of EclEpsTwoPhaseLawParams and of
\* EclMultiplexerMaterialParams, EclTwoPhaseMaterialParams::approach,
\* EclDefaultMaterialParams::inconsistentHysteresisUpdate) never does.
C5_CheckedAccessors ==
    finLast.op = "access" =>
        IF <<obj.cls, finLast.acc>> \in C5_Checked
        THEN finLast.outcome = "runtime_error" <=> ~obj.finalized_
        ELSE finLast.outcome # "runtime_error"

\* C5 witness: Swl() has thrown on Stone2 parameters that are not finalized.
C5_Witness ==
    /\ finLast.op = "access" /\ finLast.acc = "Swl"
    /\ obj.cls = "EclStone2MaterialParams"
    /\ ~obj.finalized_
    /\ finLast.outcome = "runtime_error"

S1Returned(op) == s1Last.op = op /\ s1Last.status = "ok"

\* C6: whatever the saturations (also outside [0, 1]) and the nested
\* two-phase relperms (also above 1 or below 0), the oil relative
\* permeability that relativePermeabilities returns lies in [0, 1].
C6_KroInUnitInterval ==
    S1Returned("relativePermeabilities") =>
        Le(Zero, s1Last.oil) /\ Le(s1Last.oil, One)

\* C6 witness: both nested relperms are 2, the blend is above 1 and the
\* returned kro is 1.
C6_Witness ==
    /\ S1Returned("relativePermeabilities")
    /\ s1.oilWaterParams_ = "Const2" /\ s1.gasOilParams_ = "Const2"
    /\ Lt(One, Stone1RawKro(s1, s1Last.Sw, s1Last.Sg))
    /\ s1Last.oil = One

\* The clamp of a defined value x to [0, 1].
Clamp01(x) == IF Lt(x, Zero) THEN Zero ELSE IF Lt(One, x) THEN One ELSE x

\* The blend exponent as the specification states it.
C7_Beta(Sw, Sg, Swco, eta) ==
    LET SSw == Div(Sub(Sw, Swco), Sub(One, Swco))
        SSg == Div(Sg, Sub(One, Swco))
        SSo == Sub(Sub(One, SSw), SSg)
    IN IF Le(Sw, Swco) \/ Ge(SSw, One) \/ Ge(SSg, One)
       THEN One
       ELSE Pow(Div(SSo, Mul(Sub(One, SSw), Sub(One, SSg))), eta)

C7_Blend(Sw, Sg) ==
    LET kro_ow == TwoPhaseSatKrn(s1.oilWaterParams_, Sw)
        kro_go == TwoPhaseSatKrw(s1.gasOilParams_, Sub(Sub(One, Sg), s1.Swl_))
    IN Div(Mul(Mul(C7_Beta(Sw, Sg, s1.Swl_, s1.eta_), kro_ow), kro_go), s1.krocw_)

\* C7: relativePermeabilities returns krw = OilWater.twoPhaseSatKrw(Sw),
\* krg = GasOil.twoPhaseSatKrn(1 - Sg) and kro = clamp(beta kro_ow kro_go /
\* krocw, 0, 1) with beta = 1 if Sw <= Swco or SSw >= 1 or SSg >= 1 and
\* (SSo / ((1 - SSw)(1 - SSg)))^eta otherwise; for Sw = Swco the blend is
\* kro_ow kro_go / krocw. (kro is compared wherever the blend has a value,
\* that is, is not 0/0.)
C7_RelativePermeabilities ==
    S1Returned("relativePermeabilities") =>
        LET Sw == s1Last.Sw
            Sg == s1Last.Sg
            blend == C7_Blend(Sw, Sg)
            atSwco == Div(Mul(TwoPhaseSatKrn(s1.oilWaterParams_, Sw),
                              TwoPhaseSatKrw(s1.gasOilParams_,
                                             Sub(Sub(One, Sg), s1.Swl_))),
                          s1.krocw_)
        IN /\ s1Last.water = TwoPhaseSatKrw(s1.oilWaterParams_, Sw)
           /\ s1Last.gas = TwoPhaseSatKrn(s1.gasOilParams_, Sub(One, Sg))
           /\ blend.k # "nan" => s1Last.oil = Clamp01(blend)
           /\ (Sw = s1.Swl_ /\ atSwco.k # "nan") => s1Last.oil = Clamp01(atSwco)

\* C7 witness: the exponent branch is taken with eta = 2 and a blend
\* exponent other than 0 and 1, and kro lies strictly between 0 and 1.
C7_Witness ==
    /\ S1Returned("relativePermeabilities")
    /\ s1.eta_ = 2
    /\ Lt(Zero, s1.Swl_) /\ Lt(s1.Swl_, s1Last.Sw)
    /\ Stone1Beta(s1, s1Last.Sw, s1Last.Sg) \notin {Zero, One}
    /\ Lt(Zero, s1Last.oil) /\ Lt(s1Last.oil, One)

\* C8: capillaryPressures returns exactly 0 for oil,
\* -OilWater.twoPhaseSatPcnw(Sw) for water and GasOil.twoPhaseSatPcnw(1 - Sg)
\* for gas.
C8_CapillaryPressures ==
    S1Returned("capillaryPressures") =>
        /\ s1Last.oil = Zero
        /\ s1Last.water = Neg(TwoPhaseSatPcnw(s1.oilWaterParams_, s1Last.Sw))
        /\ s1Last.gas = TwoPhaseSatPcnw(s1.gasOilParams_, Sub(One, s1Last.Sg))

\* C8 witness: capillary pressures of a state with Sw and Sg strictly inside
\* (0, 1), a negative water value and a positive gas value.
C8_Witness ==
    /\ S1Returned("capillaryPressures")
    /\ Lt(Zero, s1Last.Sw) /\ Lt(s1Last.Sw, One)
    /\ Lt(Zero, s1Last.Sg) /\ Lt(s1Last.Sg, One)
    /\ s1Last.Sw # Sub(One, s1Last.Sg)
    /\ Lt(s1Last.water, Zero) /\ Lt(Zero, s1Last.gas)
    /\ s1.oilWaterParams_ = "Linear" /\ s1.gasOilParams_ = "Linear"

\* C9: directly after finalize(), krocw() is
\* OilWaterLaw::twoPhaseSatKrn(oilWaterParams(), Swl()), the oil-water
\* parameters and Swl being those set when finalize() ran.
C9_KrocwAtFinalize ==
    S1Returned("finalize") =>
        /\ s1.finalized_
        /\ s1.krocw_ = TwoPhaseSatKrn(s1.oilWaterParams_, s1.Swl_)

\* C9 witness: finalize() has just run with Swl strictly inside (0, 1) and
\* left a krocw strictly inside (0, 1).
C9_Witness ==
    /\ S1Returned("finalize")
    /\ Lt(Zero, s1.Swl_) /\ Lt(s1.Swl_, One)
    /\ Lt(Zero, s1.krocw_) /\ Lt(s1.krocw_, One)

\* relativePermeabilities has returned for saturations in [0, 1].
C17_Case ==
    /\ S1Returned("relativePermeabilities")
    /\ Le(Zero, s1Last.Sw) /\ Le(s1Last.Sw, One)
    /\ Le(Zero, s1Last.Sg) /\ Le(s1Last.Sg, One)

C17_Divisors == Stone1KrnDivisors(s1, s1Last.Sw, s1Last.Sg)

TreeReturned(op) == treeLast.op = op /\ treeLast.status = "ok"

\* C18: an updateHysteresis call that returns has made exactly two update
\* calls, the first on the oil-water parameters with pcSw = krwSw = krnSw =
\* Sw, the second on the gas-oil parameters with pcSw = krwSw = krnSw =
\* 1 - Sg, and the nested objects hold these saturations afterwards (the
\* gas-oil ones where both pointers name one object).
C18_UpdateHysteresis ==
    TreeReturned("updateHysteresis") =>
        LET p == tree.params
            Sw == treeLast.Sw
            SgC == Sub(One, treeLast.Sg)
            c == treeLast.calls
        IN /\ Len(c) = 2
           /\ c[1] = [target |-> p.oilWaterParams_, pcSw |-> Sw, krwSw |-> Sw,
                      krnSw |-> Sw]
           /\ c[2] = [target |-> p.gasOilParams_, pcSw |-> SgC, krwSw |-> SgC,
                      krnSw |-> SgC]
           /\ c = UpdateHysteresisCalls(p, treeLast.Sw, treeLast.Sg)
           /\ tree.nested[p.gasOilParams_] =
                  [pcSw |-> SgC, krwSw |-> SgC, krnSw |-> SgC]
           /\ p.oilWaterParams_ # p.gasOilParams_ =>
                  tree.nested[p.oilWaterParams_] =
                      [pcSw |-> Sw, krwSw |-> Sw, krnSw |-> Sw]

\* C18 witness: updateHysteresis has returned on a tree with two different
\* nested objects for saturations with Sw, Sg and 1 - Sg all different.
C18_Witness ==
    /\ TreeReturned("updateHysteresis")
    /\ tree.params.oilWaterParams_ # tree.params.gasOilParams_
    /\ treeLast.Sw # treeLast.Sg
    /\ treeLast.Sw # Sub(One, treeLast.Sg)
    /\ treeLast.Sg # Sub(One, treeLast.Sg)
    /\ tree.nested[tree.params.oilWaterParams_].krnSw = treeLast.Sw
    /\ tree.nested[tree.params.gasOilParams_].krnSw = Sub(One, treeLast.Sg)

\* C19: saturations(), Sg(), Sn() and Sw() end in a std::logic_error that
\* says "Not implemented", whatever the parameter object, and never return.
C19_InverseQueriesThrow ==
    treeLast.op \in InverseQueries =>
        /\ treeLast.status = "logic_error"
        /\ treeLast.what = "Not implemented: " \o treeLast.op \o "()"

\* C19 witness: Sn() was called with parameters that are finalized and have
\* both nested objects, which an evaluation would accept.
C19_Witness ==
    /\ treeLast.op = "Sn"
    /\ treeLast.status = "logic_error"
    /\ tree.params.finalized_
    /\ tree.params.oilWaterParams_ # Null /\ tree.params.gasOilParams_ # Null

\* The operations that take the parameters as a const reference or not at all.
C20_ReadOnlyOps == {"capillaryPressures", "relativePermeabilities"} \cup InverseQueries

\* C20 as stated: no operation but updateHysteresis changes a tree whose
\* parameters are finalized.
C20_OnlyUpdateHysteresisWrites ==
    [][(tree.params.finalized_ /\ treeLast'.op # "updateHysteresis")
           => tree' = tree]_vars

\* C20 as amended: capillaryPressures, relativePermeabilities and the
\* inverse queries leave the whole tree unchanged, finalized or not;
\* updateHysteresis writes the nested objects only; the setters still write
\* a finalized object, leaving finalized_ and krocw_ as they are.
C20_EvaluationsLeaveTree ==
    [][/\ treeLast'.op \in C20_ReadOnlyOps => tree' = tree
       /\ treeLast'.op = "updateHysteresis" => tree'.params = tree.params
       /\ treeLast'.op \in {"setSwl", "setEta", "setOilWaterParams",
                            "setGasOilParams"} =>
              /\ tree'.nested = tree.nested
              /\ tree'.params.finalized_ = tree.params.finalized_
              /\ tree'.params.krocw_ = tree.params.krocw_]_vars

\* C20 witness: relativePermeabilities has returned on a finalized tree
\* whose nested objects both hold saturations of an updateHysteresis call
\* and whose krocw is that of finalize().
C20_Witness ==
    /\ TreeReturned("relativePermeabilities")
    /\ tree.params.finalized_
    /\ tree.params.krocw_ = FinalizeKrocw(tree.params)
    /\ tree.params.oilWaterParams_ # tree.params.gasOilParams_
    /\ tree.nested[tree.params.oilWaterParams_] # NeverUpdated
    /\ tree.nested[tree.params.gasOilParams_] # NeverUpdated

\* C23: the copy of a finalized parameter object is finalized and holds the
\* values of the original, for every parameter class.
C23_CopyOfFinalized ==
    [][(finLast'.op = "copy" /\ obj.finalized_) =>
           (obj'.finalized_ /\ obj' = obj)]_vars

HcInitDone == hcLast.op = "initFromDeck"

\* SATOPTS lists HYSTER, compared without regard to case, at some position.
C24_SatoptsListsHyster(deck) ==
    /\ deck.SATOPTS # NoKeyword
    /\ \E i \in 1..Len(deck.SATOPTS) : ToUpper(deck.SATOPTS[i]) = "HYSTER"

\* C24: after initFromDeck, enableHysteresis() is true exactly when SATOPTS
\* lists HYSTER at any position or the deck has the HYST keyword.
C24_EnableHysteresis ==
    HcInitDone =>
        (hc.enableHysteresis_ <=>
            (C24_SatoptsListsHyster(hcLast.deck) \/ hcLast.deck.HYST))

C27_NullLaws ==
    /\ (tmLast.op = "solidInternalEnergy" /\ tmDeck # TmNoDeck
          /\ ~tmDeck.hasHeatcr /\ ~tmDeck.hasSpecrock)
       => tmLast.outcome = "NullLaw"
    /\ (tmLast.op = "thermalConductivity" /\ tmDeck # TmNoDeck
          /\ ~tmDeck.hasThconr /\ ~tmDeck.hasThc)
       => tmLast.outcome = "NullLaw"

\* The live multiplexers whose pointer is to object o under an approach
\* with an object.
OwnersOf(o) ==
    {i \in Owners : /\ ow[i].alive
                    /\ ow[i].approach \in OwningApproaches(owCls)
                    /\ ow[i].real = <<o>>}

\* C28: no law parameter object is deleted more than once, and none is
\* reachable through a live multiplexer parameter object once deleted.
C28_DeletedAtMostOnce ==
    \A o \in Objs : /\ owHeap[o].deletes <= 1
                    /\ owHeap[o].deletes > 0 => OwnersOf(o) = {}

\* C29: every PVT object that has been created and not deleted is owned by
\* exactly one live multiplexer, and none is deleted more than once; so
\* none is shared, deleted twice, or left when all multiplexers are gone.
C29_ExclusiveOwnership ==
    \A o \in Objs :
        owHeap[o].allocated =>
            /\ owHeap[o].deletes <= 1
            /\ Cardinality(OwnersOf(o)) = (IF owHeap[o].deletes = 0 THEN 1 ELSE 0)

\* The first n points of an array are assigned and non-decreasing.
OrdAssigned(a, n) == \A i \in 1..n : IsFin(a[i])
OrdNonDecreasing(a, n) == \A i \in 1..(n - 1) : Le(a[i], a[i + 1])
OrdUsed == IF ordLast.three THEN 3 ELSE 2
OrdSum3(a, b, c) == Add(Add(a, b), c)

\* C30 as stated: after init on endpoint values within the invariant, the
\* capillary-pressure, krw and krn points in use are assigned and
\* non-decreasing, in both modes and for both systems.
C30_PointsNonDecreasing ==
    ordLast.op = "init" =>
        /\ OrdAssigned(ordPts.saturationPcPoints_, 2)
        /\ OrdAssigned(ordPts.saturationKrwPoints_, OrdUsed)
        /\ OrdAssigned(ordPts.saturationKrnPoints_, OrdUsed)
        /\ OrdNonDecreasing(ordPts.saturationPcPoints_, 2)
        /\ OrdNonDecreasing(ordPts.saturationKrwPoints_, OrdUsed)
        /\ OrdNonDecreasing(ordPts.saturationKrnPoints_, OrdUsed)

\* The conditions on the endpoint values under which the krw points, and the
\* krn points, are non-decreasing.
OrdKrwCondition ==
    LET e == ordInfo
    IN IF ordLast.sys = "EclOilWaterSystem"
       THEN ordLast.three =>
               /\ Le(OrdSum3(e.Swcr, e.Sowcr, e.Sgl), One)
               /\ Le(One, OrdSum3(e.Swu, e.Sowcr, e.Sgl))
       ELSE IF ordLast.three
            THEN Le(OrdSum3(e.Sogcr, e.Sgcr, e.Swl), One)
            ELSE Le(OrdSum3(e.Sogcr, e.Sgl, e.Swl), One)

OrdKrnCondition ==
    LET e == ordInfo
    IN IF ordLast.sys = "EclOilWaterSystem"
       THEN IF ordLast.three
            THEN Le(OrdSum3(e.Swcr, e.Sgl, e.Sowcr), One)
            ELSE Le(OrdSum3(e.Swl, e.Sgl, e.Sowcr), One)
       ELSE ordLast.three =>
               /\ Le(One, OrdSum3(e.Sgu, e.Sogcr, e.Swl))
               /\ Le(OrdSum3(e.Sogcr, e.Swl, e.Sgcr), One)

\* C30 as amended: after init on endpoint values within the invariant the
\* points in use are assigned and the capillary-pressure points are
\* non-decreasing; the krw points and the krn points are non-decreasing
\* exactly under OrdKrwCondition and OrdKrnCondition, which hold for every
\* record for the two-point krw points of the oil-water system and the
\* two-point krn points of the gas-oil system.
C30_PointsOrdered ==
    ordLast.op = "init" =>
        /\ OrdAssigned(ordPts.saturationPcPoints_, 2)
        /\ OrdAssigned(ordPts.saturationKrwPoints_, OrdUsed)
        /\ OrdAssigned(ordPts.saturationKrnPoints_, OrdUsed)
        /\ OrdNonDecreasing(ordPts.saturationPcPoints_, 2)
        /\ OrdNonDecreasing(ordPts.saturationKrwPoints_, OrdUsed) <=> OrdKrwCondition
        /\ OrdNonDecreasing(ordPts.saturationKrnPoints_, OrdUsed) <=> OrdKrnCondition
        /\ (ordLast.sys = "EclOilWaterSystem" /\ ~ordLast.three) => OrdKrwCondition
        /\ (ordLast.sys = "EclGasOilSystem" /\ ~ordLast.three) => OrdKrnCondition

\* C30 witness: init has run in three-point mode for the oil-water system on
\* endpoint values within the invariant and the middle krw point is below
\* the first.
C30_Witness ==
    /\ ordLast.op = "init" /\ ordLast.three
    /\ ordLast.sys = "EclOilWaterSystem"
    /\ Lt(ordPts.saturationKrwPoints_[2], ordPts.saturationKrwPoints_[1])
    /\ OrdNonDecreasing(ordPts.saturationPcPoints_, 2)

AdReturned == adLast.op = "evaluate" /\ adLast.status = "ok"

C22_Case(scInfo) ==
    /\ AdReturned /\ adLast.fn = "krw"
    /\ adCfg.enableSatScaling_ /\ ~adCfg.enableThreePointKrSatScaling_
    /\ ~adCfg.enableKrwScaling_ /\ ~adCfg.enablePcScaling_
    /\ ad.unscaledPoints_ \in {<<p>> : p \in AdPointsOf({RegionInfo})}
    /\ ad.scaledPoints_ \in AdPointsOf({scInfo})
    /\ adLast.Sw = scInfo.Swcr

EpsBoth == eps.enablePcScaling_ /\ eps.enableLeverettScaling_

\* C10 as stated: no EclEpsConfig object ever has enablePcScaling and
\* enableLeverettScaling both true.
C10_NeverBoth == ~EpsBoth

\* C10 as amended: initFromDeck throws whenever the deck enables endpoint
\* scaling and has both the capillary-pressure property of the system and an
\* applicable JFUNC; no initFromDeck call returns normally with both flags
\* true; and every setter call returns normally, whatever the flags.
C10_InitFromDeckExclusive ==
    /\ (epsLast.op = "initFromDeck" /\ epsLast.endscale /\ epsLast.pcProp
          /\ epsLast.jfunc) => epsLast.threw
    /\ (epsLast.op = "initFromDeck" /\ ~epsLast.threw) => ~EpsBoth
    /\ epsLast.op = "setter" => ~epsLast.threw

\* C10 witness: initFromDeck has thrown on a deck with endpoint scaling, the
\* capillary-pressure property and an applicable JFUNC.
C10_Witness ==
    /\ epsLast.op = "initFromDeck" /\ epsLast.threw
    /\ epsLast.endscale /\ epsLast.pcProp /\ epsLast.jfunc

\* C25: after initFromDeck on a deck that does not enable endpoint scaling
\* all six flags are false and the call has returned normally, for either
\* system, whatever else the deck holds and whatever the flags were.
C25_AllFlagsFalse ==
    (epsLast.op = "initFromDeck" /\ ~epsLast.endscale) =>
        /\ \A f \in EpsFlags : ~eps[f]
        /\ ~epsLast.threw

\* C25 witness: initFromDeck has run on a deck without endpoint scaling that
\* has the capillary-pressure property and an applicable JFUNC, and left no
\* flag set.
C25_Witness ==
    /\ epsLast.op = "initFromDeck" /\ ~epsLast.endscale
    /\ epsLast.pcProp /\ epsLast.jfunc
    /\ eps = EclEpsConfigCtor

\* The first n elements of array a.
FirstOf(a, n) == SubSeq(a, 1, n)

\* The points C11 states for the oil-water system from the endpoint values e;
\* the relperm arrays have 2 elements in 2-point mode and 3 in 3-point mode.
OilWaterPointsOf(e, three) ==
    [pc |-> <<e.Swl, e.Swu>>,
     krw |-> IF three
             THEN <<e.Swcr, Sub(Sub(One, e.Sowcr), e.Sgl), e.Swu>>
             ELSE <<e.Swcr, e.Swu>>,
     krn |-> IF three
             THEN <<Add(e.Swl, e.Sgl), Add(e.Swcr, e.Sgl), Sub(One, e.Sowcr)>>
             ELSE <<Add(e.Swl, e.Sgl), Sub(One, e.Sowcr)>>]

\* The points C12 states for the gas-oil system.
GasOilPointsOf(e, three) ==
    [pc |-> <<Sub(One, e.Sgu), Sub(One, e.Sgl)>>,
     krw |-> IF three
             THEN <<e.Sogcr, Sub(Sub(One, e.Sgcr), e.Swl),
                    Sub(Sub(One, e.Swl), e.Sgl)>>
             ELSE <<e.Sogcr, Sub(Sub(One, e.Swl), e.Sgl)>>,
     krn |-> IF three
             THEN <<Sub(One, e.Sgu), Add(e.Sogcr, e.Swl), Sub(One, e.Sgcr)>>
             ELSE <<Sub(One, e.Sgu), Sub(One, e.Sgcr)>>]

\* The object holds the points q (its relperm arrays compared over the
\* length of those of q).
HoldsPoints(q) ==
    /\ pts.saturationPcPoints_ = q.pc
    /\ FirstOf(pts.saturationKrwPoints_, Len(q.krw)) = q.krw
    /\ FirstOf(pts.saturationKrnPoints_, Len(q.krn)) = q.krn

PtsInitDone(sys) == ptsLast.op = "init" /\ ptsLast.sys = sys

\* C11: init for the oil-water system sets the capillary-pressure points to
\* [Swl, Swu], the krw points to [Swcr, Swu] (2-point) or
\* [Swcr, 1 - Sowcr - Sgl, Swu] (3-point) and the krn points to
\* [Swl + Sgl, 1 - Sowcr] (2-point) or [Swl + Sgl, Swcr + Sgl, 1 - Sowcr]
\* (3-point).
C11_OilWaterPoints ==
    PtsInitDone("EclOilWaterSystem") =>
        HoldsPoints(OilWaterPointsOf(EpsInfo(ptsLast.info), ptsLast.three))

\* C11 witness: init has run for the oil-water system in 3-point mode, the
\* middle krw point is 1 - Sowcr - Sgl, which differs from 1 - Sowcr, and the
\* first two krn points differ.
C11_Witness ==
    /\ PtsInitDone("EclOilWaterSystem") /\ ptsLast.three
    /\ pts.saturationKrwPoints_[2] =
          Sub(Sub(One, EpsInfo(ptsLast.info).Sowcr), EpsInfo(ptsLast.info).Sgl)
    /\ pts.saturationKrnPoints_[1] # pts.saturationKrnPoints_[2]
    /\ pts.saturationKrwPoints_[2] # Sub(One, EpsInfo(ptsLast.info).Sowcr)

\* The endpoint values with the roles exchanged: oil takes the place of water
\* as the wetting phase, gas that of oil as the non-wetting phase, and water
\* that of gas as the third phase.
ExchangeRoles(e) ==
    [e EXCEPT !.Swl = e.Sogl, !.Swcr = e.Sogcr, !.Swu = e.Sogu,
              !.Sowcr = e.Sgcr, !.Sgl = e.Swl]

\* C12 as stated: init for the gas-oil system sets the points listed in the
\* claim, and each of them is the oil-water point computed from the endpoint
\* values with the roles exchanged.
C12_GasOilIsImageOfOilWater ==
    PtsInitDone("EclGasOilSystem") =>
        /\ HoldsPoints(GasOilPointsOf(EpsInfo(ptsLast.info), ptsLast.three))
        /\ HoldsPoints(OilWaterPointsOf(ExchangeRoles(EpsInfo(ptsLast.info)),
                                        ptsLast.three))

\* C12 as amended: init for the gas-oil system sets the capillary-pressure
\* points to [1 - Sgu, 1 - Sgl], the krn points to [1 - Sgu, 1 - Sgcr]
\* (2-point) or [1 - Sgu, Sogcr + Swl, 1 - Sgcr] (3-point) and the krw points
\* to [Sogcr, 1 - Swl - Sgl] (2-point) or
\* [Sogcr, 1 - Sgcr - Swl, 1 - Swl - Sgl] (3-point).
C12_GasOilPoints ==
    PtsInitDone("EclGasOilSystem") =>
        HoldsPoints(GasOilPointsOf(EpsInfo(ptsLast.info), ptsLast.three))

\* C12 witness: init has run for the gas-oil system in 3-point mode; the
\* lower krn point is 1 - Sgu, which is not the exchanged-roles value
\* Sogl + Swl.
C12_Witness ==
    /\ PtsInitDone("EclGasOilSystem") /\ ptsLast.three
    /\ pts.saturationKrnPoints_[1] = Sub(One, EpsInfo(ptsLast.info).Sgu)
    /\ pts.saturationKrnPoints_[1] #
          Add(EpsInfo(ptsLast.info).Sogl, EpsInfo(ptsLast.info).Swl)

\* C13: init stores the subsystem's Leverett factor whenever
\* enableLeverettScaling() is true, whatever enablePcScaling() is, and the
\* subsystem's maximum capillary pressure otherwise; (maxKrw, maxKrn) is
\* (maxKrw, maxKrow) for oil-water and (maxKrog, maxKrg) for gas-oil;
\* maxPcnw() and leverettFactor() both return that one stored value.
C13_Maxima ==
    LET e == EpsInfo(ptsLast.info)
    IN /\ PtsInitDone("EclOilWaterSystem") =>
            /\ pts.maxPcnwOrLeverettFactor_ =
                  (IF ptsLast.lev THEN e.pcowLeverettFactor ELSE e.maxPcow)
            /\ pts.maxKrw_ = e.maxKrw /\ pts.maxKrn_ = e.maxKrow
       /\ PtsInitDone("EclGasOilSystem") =>
            /\ pts.maxPcnwOrLeverettFactor_ =
                  (IF ptsLast.lev THEN e.pcgoLeverettFactor ELSE e.maxPcgo)
            /\ pts.maxKrw_ = e.maxKrog /\ pts.maxKrn_ = e.maxKrg
       /\ (ptsLast.op = "get" /\ ptsLast.name \in {"maxPcnw", "leverettFactor"})
            => ptsLast.ret = <<pts.maxPcnwOrLeverettFactor_>>

\* C13 witness: init has run with Leverett scaling and capillary-pressure
\* scaling both enabled and has stored the oil-water Leverett factor.
C13_Witness ==
    /\ PtsInitDone("EclOilWaterSystem") /\ ptsLast.lev /\ ptsLast.pcs
    /\ pts.maxPcnwOrLeverettFactor_ = EpsInfo(ptsLast.info).pcowLeverettFactor
    /\ pts.maxPcnwOrLeverettFactor_ # EpsInfo(ptsLast.info).maxPcow

\* C14 as stated: once init() has run, no operation changes the points or the
\* maxima.
C14_ImmutableAfterInit == [][ptsLast.op = "init" => pts' = pts]_vars

\* The member each set* method writes, as its name says.
C14_Written ==
    [setSaturationPcPoint |-> "saturationPcPoints_",
     setSaturationKrwPoint |-> "saturationKrwPoints_",
     setSaturationKrnPoint |-> "saturationKrnPoints_",
     setMaxPcnw |-> "maxPcnwOrLeverettFactor_",
     setLeverettFactor |-> "maxPcnwOrLeverettFactor_",
     setMaxKrw |-> "maxKrw_",
     setMaxKrn |-> "maxKrn_"]

\* C14 as amended: the const accessors never change the points or the
\* maxima; the values change only through init() and the public set*
\* methods, which stay callable after init(), and a set* method changes only
\* the member it names.
C14_OnlyInitAndSettersWrite ==
    [][/\ pts' # pts => ptsLast'.op \in {"init", "set"}
       /\ ptsLast'.op = "get" => pts' = pts
       /\ ptsLast'.op = "set" =>
            \A m \in DOMAIN pts :
                m # C14_Written[ptsLast'.name] => pts'[m] = pts[m]]_vars

\* C14 witness: after init() a set* method has changed a maximum.
C14_Witness ==
    /\ ptsLast.op = "set" /\ ptsLast.name = "setMaxKrn"
    /\ pts.maxKrn_ = Rat(1, 2)
    /\ pts.maxKrw_ \in {EpsInfo(k).maxKrw : k \in 1..NumInfos}

\* The unscaled points observed through parameter object i.
ObservedUnscaled(i) == spHeap[lp[i].unscaledPoints_]

\* After setScaledPoints the object holds the content its argument had then;
\* scaledPoints() returns the object's own scaled points and unscaledPoints()
\* the caller's instance; objects given the same instance observe the same
\* content.
C15_Observed ==
    /\ lpLast.op = "scaledPoints" => lpLast.ret = lp[lpLast.obj].scaledPoints_
    /\ (lpLast.op = "unscaledPoints"
          /\ lp[lpLast.obj].unscaledPoints_ # Null) =>
            lpLast.ret = ObservedUnscaled(lpLast.obj)
    /\ \A i, j \in LawObjs :
          (lp[i].unscaledPoints_ # Null
             /\ lp[i].unscaledPoints_ = lp[j].unscaledPoints_) =>
                ObservedUnscaled(i) = ObservedUnscaled(j)

\* The scaled points of object i change only in setScaledPoints on i or in a
\* write through i's scaledPoints(), not when the caller changes the object
\* it passed or when another object's scaled points change; and no operation
\* of the parameter class changes an instance of the caller.
C15_Frame ==
    /\ \A i \in LawObjs :
          lp'[i].scaledPoints_ # lp[i].scaledPoints_ =>
              /\ lpLast'.obj = i
              /\ lpLast'.op \in {"setScaledPoints", "scaledPoints.write"}
    /\ spHeap' # spHeap => lpLast'.op = "caller.write"
    /\ \A i \in LawObjs :
          (lpLast'.op = "caller.write" /\ lp[i].unscaledPoints_ # Null) =>
              lp'[i].unscaledPoints_ = lp[i].unscaledPoints_

\* C15: the scaled points are per object (setScaledPoints copies its
\* argument; later changes to the argument or to another object's scaled
\* points do not reach this object), the unscaled points are shared (every
\* object given the same instance observes that instance, which no operation
\* of the parameter class modifies).
C15_ScaledOwnUnscaledShared == [](C15_Observed) /\ [][C15_Frame]_vars

\* C15 witness: both objects were given the same unscaled instance and
\* observe its content "B"; the first holds scaled points "A" although the
\* caller's cellPoints and the other object's scaled points are "B".
C15_Witness ==
    /\ lp[1].unscaledPoints_ = "regionPoints"
    /\ lp[2].unscaledPoints_ = "regionPoints"
    /\ ObservedUnscaled(1) = "B"
    /\ lp[1].scaledPoints_ = "A"
    /\ lp[2].scaledPoints_ = "B"
    /\ spHeap["cellPoints"] = "B"
    /\ lpLast.op = "unscaledPoints"

\* The grid property of each scaled endpoint, as C16 pairs them.
C16_PropertyOf ==
    [Swl |-> "Swl", Sgl |-> "Sgl", Swcr |-> "Swcr", Sgcr |-> "Sgcr",
     Sowcr |-> "Sowcr", Sogcr |-> "Sogcr", Swu |-> "Swu", Sgu |-> "Sgu",
     maxPcow |-> "Pcw", maxPcgo |-> "Pcg", maxKrw |-> "Krw",
     maxKrg |-> "Krg", maxKrow |-> "Kro", maxKrog |-> "Kro"]

====
